---- MODULE Spec2Model ----
(***************************************************************************)
(* Patch lifecycle and application engine of the pcamaw CLI:               *)
(*   PatchManager   (lib/patch-manager.js)   store and file application    *)
(*   CommitWorkflow (lib/commit-workflow.js) interactive apply/commit/push *)
(*   bin/pcamaw     apply command                                          *)
(*                                                                         *)
(* Strings are sequences of one-character strings, so that split, filter,  *)
(* substring and join are computed as the JavaScript computes them.        *)
(* Paths are sequences of path components relative to baseDir.             *)
(***************************************************************************)
EXTENDS Integers, Sequences, FiniteSets, TLC

VARIABLES
    disk,          \* regular files: [existing paths -> file content]
    dirs,          \* existing directories (paths); <<>> is baseDir
    pc,            \* position of the apply command / workflow
    argv,          \* flags of the apply command: [noCommit, autoPush]
    patch,         \* the patch argument of CommitWorkflow.applyPatch: <<>> or <<p>>
    opts,          \* [skipCommit, autoPush] of CommitWorkflow.applyPatch
    idx,           \* PatchManager.applyPatch: index of the next entry of patch.files
    appliedFiles,  \* PatchManager.applyPatch: paths pushed so far
    prompts,       \* names of the inquirer prompts issued, in order
    answers,       \* answers given at the three confirm prompts
    commitMessage, \* message returned by the editor prompt
    repo,          \* result of isGitRepo(): "unknown" until it has run
    execLog,       \* git commands run through execSync, in order
    commits,       \* messages of the commits created in the local repository
    remote,        \* number of local commits present on origin
    console,       \* what was printed, in order
    returnedAt,    \* source line of the return that ended CommitWorkflow.applyPatch
    exitCode,      \* process exit status; -1 while running
    call           \* the last call of a PatchManager store method and its outcome

vars == <<disk, dirs, pc, argv, patch, opts, idx, appliedFiles, prompts, answers,
          commitMessage, repo, execLog, commits, remote, console, returnedAt,
          exitCode, call>>

-----------------------------------------------------------------------------
(* Bounds *)

\* most file changes in one patch
MaxFiles == 3

\* most characters of a file content whose create diff is synthesized
MaxLen == 3

\* latest timestamp given to savePatch
MaxTime == 1

-----------------------------------------------------------------------------
(* Strings *)

NL == "\n"

Chars == {"+", "-", "x", NL}

RECURSIVE TextsOfLen(_)
TextsOfLen(n) ==
    IF n = 0 THEN {<<>>}
    ELSE {Append(t, c) : t \in TextsOfLen(n - 1), c \in Chars}

Texts == UNION {TextsOfLen(n) : n \in 0..MaxLen}

\* index of the first newline of s, 0 when there is none
RECURSIVE IndexOfNL(_, _)
IndexOfNL(s, i) ==
    IF i > Len(s) THEN 0
    ELSE IF s[i] = NL THEN i
    ELSE IndexOfNL(s, i + 1)

\* String.prototype.split('\n'): the empty string splits into one empty line
RECURSIVE Split(_)
Split(s) ==
    LET i == IndexOfNL(s, 1)
    IN  IF i = 0 THEN <<s>>
        ELSE <<SubSeq(s, 1, i - 1)>> \o Split(SubSeq(s, i + 1, Len(s)))

\* Array.prototype.join('\n'): the empty array joins to the empty string
RECURSIVE Join(_)
Join(ls) ==
    IF Len(ls) = 0 THEN <<>>
    ELSE IF Len(ls) = 1 THEN ls[1]
    ELSE ls[1] \o <<NL>> \o Join(Tail(ls))

StartsWithPlus(line) == Len(line) > 0 /\ line[1] = "+"

\* line.substring(1)
Substring1(line) == IF Len(line) = 0 THEN <<>> ELSE Tail(line)

\* content.split('\n').map(line => '+' + line).join('\n')
PlusPrefixed(content) ==
    LET ls == Split(content)
    IN  Join([i \in 1..Len(ls) |-> <<"+">> \o ls[i]])

-----------------------------------------------------------------------------
(* File system *)

TextFile(s) == [text |-> s, json |-> <<>>]

\* JSON.stringify(patchData, null, 2) written as a document
JsonFile(p) == [text |-> <<>>, json |-> <<p>>]

PatchesDir == <<".pcamaw", "patches">>

\* a patch name that holds path separators and parent references
TraversalName == "../../a"

\* the components of a file name, split at the path separator
Components(file) ==
    IF file = TraversalName \o ".json" THEN <<"..", "..", "a.json">> ELSE <<file>>

\* path.join normalises its result: a '..' component removes the one before it
RECURSIVE Normalize(_, _)
Normalize(done, rest) ==
    IF Len(rest) = 0 THEN done
    ELSE IF rest[1] = ".." /\ Len(done) > 0 /\ done[Len(done)] # ".."
    THEN Normalize(SubSeq(done, 1, Len(done) - 1), Tail(rest))
    ELSE Normalize(Append(done, rest[1]), Tail(rest))

\* path.join(dir, file)
PathJoin(dir, file) == Normalize(<<>>, dir \o Components(file))

\* path.join(this.patchesDir, `${name}.json`)
StorePath(name) == PathJoin(PatchesDir, name \o ".json")

Dirname(p) == SubSeq(p, 1, Len(p) - 1)

Prefixes(d) == {SubSeq(d, 1, n) : n \in 0..Len(d)}

\* fs.mkdir(dir, {recursive: true}) succeeds unless a component is a regular file
MkdirOk(d, files) == \A q \in Prefixes(d) : q \notin DOMAIN files

\* fs.writeFile(p, ...) succeeds unless p is a directory
WriteOk(p, ds) == p \notin ds

\* mutant: an existing file is not overwritten (flag 'wx' semantics, error ignored)
WriteFile_NoOverwrite(files, p, c) ==
    [q \in DOMAIN files \cup {p} |-> IF q \in DOMAIN files THEN files[q] ELSE c]

WriteFile(files, p, c) ==
    [q \in DOMAIN files \cup {p} |-> IF q = p THEN c ELSE files[q]]

-----------------------------------------------------------------------------
(* Patches *)

PathA == <<"a.txt">>

PathB == <<"dir", "b.txt">>

PathRecord == StorePath("p1")

FileChange(p, op, d) == [path |-> p, operation |-> op, diff |-> d]

\* an absent diff and an empty diff are both falsy in the code: both are <<>>
FileChanges ==
    { FileChange(PathA, "create", <<"+", "x">>),
      FileChange(PathA, "create", <<"+", "-", NL, "+">>),
      FileChange(PathB, "create", <<"+", "x">>),
      FileChange(PathA, "create", <<>>),
      FileChange(PathA, "modify", <<"-", "x", NL, "+", "x">>),
      FileChange(PathB, "modify", <<"-", "x", NL, "+", "x">>),
      FileChange(PathA, "modify", <<>>),
      FileChange(PathA, "delete", <<>>),
      FileChange(PathRecord, "create", <<"+", "x">>) }

\* the lists of at most n of the changes
RECURSIVE ListsOf(_, _)
ListsOf(changes, n) ==
    IF n = 0 THEN {<<>>}
    ELSE LET shorter == ListsOf(changes, n - 1)
         IN  shorter \cup {Append(fs, fc) : fs \in {l \in shorter : Len(l) = n - 1},
                                            fc \in changes}

FileLists(n) == ListsOf(FileChanges, n)

Patch(fs) ==
    [name |-> "p1", timestamp |-> 1, description |-> "", files |-> fs,
     metadata |-> "{}"]

\* patches of an external producer
PoolPatches == {Patch(fs) : fs \in FileLists(MaxFiles)}

\* one created file whose diff is its content, every line prefixed with '+'
CreatePatches ==
    {Patch(<<FileChange(p, "create", PlusPrefixed(c))>>) : p \in {PathA, PathB},
                                                           c \in Texts}

Patches == PoolPatches \cup CreatePatches

\* patches of one change of each operation and of two paths
OperationPatches ==
    {Patch(fs) : fs \in ListsOf({FileChange(PathA, "create", <<"+", "x">>),
                                 FileChange(PathB, "create", <<"+", "x">>),
                                 FileChange(PathB, "modify", <<"-", "x", NL, "+", "x">>),
                                 FileChange(PathA, "delete", <<>>)}, MaxFiles)}

PatchNames == {"p1", "p2"}

-----------------------------------------------------------------------------
(* PatchManager *)

\* ensurePatchesDir: fs.mkdir(patchesDir, {recursive: true})
EnsurePatchesDir(ds) == ds \cup Prefixes(PatchesDir)

\* mutant: a missing record is an error like any other
GetPatch_MissingThrows(name) ==
    LET p == StorePath(name)
    IN  IF p \in DOMAIN disk /\ Len(disk[p].json) = 1
        THEN [threw |-> FALSE, value |-> disk[p].json]
        ELSE [threw |-> TRUE, value |-> <<>>]

\* getPatch: the parsed record, or null (<<>>) on ENOENT, or a thrown error
GetPatch(name) ==
    LET p == StorePath(name)
    IN  IF p \notin DOMAIN disk THEN [threw |-> FALSE, value |-> <<>>]
        ELSE IF Len(disk[p].json) = 1 THEN [threw |-> FALSE, value |-> disk[p].json]
        ELSE [threw |-> TRUE, value |-> <<>>]

\* no store method has been called
NoCall ==
    [op |-> "none", name |-> "", threw |-> FALSE, error |-> "", detail |-> <<>>,
     input |-> <<>>, patches |-> <<>>, flag |-> FALSE, count |-> 0]

\* applyPatch line 209: file.operation === 'create' && file.diff
IsCreateWithDiff(fc) == fc.operation = "create" /\ Len(fc.diff) > 0

\* applyPatch line 220: console.warn
ModifyWarning == "Warning: Modify operation not fully implemented yet"

\* applyPatch line 217: file.operation === 'modify' && file.diff
IsModifyWithDiff(fc) == fc.operation = "modify" /\ Len(fc.diff) > 0

\* mutant: lines that are empty once the prefix is stripped are dropped
ReconstructContent_DropEmpty(diff) ==
    LET kept == SelectSeq(Split(diff), LAMBDA l : Len(l) > 1 /\ l[1] = "+")
    IN  Join([i \in 1..Len(kept) |-> Substring1(kept[i])])

\* applyPatch lines 210-213: the '+' lines of the diff, prefix stripped
ReconstructContent(diff) ==
    LET kept == SelectSeq(Split(diff), StartsWithPlus)
    IN  Join([i \in 1..Len(kept) |-> Substring1(kept[i])])

\* applyPatch line 201: path.join(this.baseDir, file.path)
TargetPath(fc) == fc.path

-----------------------------------------------------------------------------
(* CommitWorkflow *)

NoAnswers == [confirmApply |-> "unasked", shouldCommit |-> "unasked",
              shouldPush |-> "unasked"]

YesNo(b) == IF b THEN "yes" ELSE "no"

\* line 141
\* the double quote and the backslash
DQ == "\""

BS == "\\"

SuggestedMessage(p) ==
    <<"chore: Apply PCAMAW patch ", DQ, p.name, DQ, NL, NL,
      IF p.description # "" THEN p.description
      ELSE "Automated changes from PCAMAW workflow">>

Files == IF Len(patch) = 1 THEN patch[1].files ELSE <<>>

\* mutant: the function prints and goes on past the return statement
Return_GoesOn(line, msgs) ==
    /\ returnedAt' = line
    /\ console' = console \o msgs \o <<"Patch workflow complete!">>
    /\ exitCode' = 0
    /\ pc' = pc

\* a return of CommitWorkflow.applyPatch at source line `line`, after printing
\* msgs; the apply command then prints its closing line and ends with status 0
Return(line, msgs) ==
    /\ returnedAt' = line
    /\ console' = console \o msgs \o <<"Patch workflow complete!">>
    /\ exitCode' = 0
    /\ pc' = "exited"

-----------------------------------------------------------------------------
(* Initial states *)

InitWorkspace == PathA :> TextFile(<<"-">>)

\* the disk when the store holds patch p
DiskWith(p) == InitWorkspace @@ (StorePath(p.name) :> JsonFile(p))

\* the state before the command runs, the store empty or holding one of stored
InitWith(stored) ==
    /\ \/ /\ disk = InitWorkspace
          /\ dirs = {<<>>}
       \/ \E p \in stored :
             /\ disk = DiskWith(p)
             /\ dirs = Prefixes(PatchesDir)
    /\ pc = "cli"
    /\ argv = [noCommit |-> FALSE, autoPush |-> FALSE]
    /\ patch = <<>>
    /\ opts = [skipCommit |-> FALSE, autoPush |-> FALSE]
    /\ idx = 0
    /\ appliedFiles = <<>>
    /\ prompts = <<>>
    /\ answers = NoAnswers
    /\ commitMessage = <<>>
    /\ repo = "unknown"
    /\ execLog = <<>>
    /\ commits = <<>>
    /\ remote = 0
    /\ console = <<>>
    /\ returnedAt = 0
    /\ exitCode = -1
    /\ call = NoCall

Init == InitWith(Patches)

-----------------------------------------------------------------------------
(* bin/pcamaw: apply <patchName> [--no-commit] [--auto-push], up to the first *)
(* prompt of CommitWorkflow.applyPatch                                        *)

\* commander: --no-commit makes options.commit false, its default is true
OptionCommit(flags) == ~flags.noCommit

\* lines 121-124: { skipCommit: !options.commit, autoPush: options.autoPush }
WorkflowOptions(flags) ==
    [skipCommit |-> ~OptionCommit(flags), autoPush |-> flags.autoPush]

ApplyCommand(name, noCommit, autoPushFlag) ==
    /\ pc = "cli"
    /\ argv' = [noCommit |-> noCommit, autoPush |-> autoPushFlag]
    /\ dirs' = EnsurePatchesDir(dirs)
    /\ LET got == GetPatch(name)
       IN  IF got.threw
           THEN /\ console' = Append(console, "Error applying patch")
                /\ exitCode' = 1
                /\ pc' = "exited"
                /\ UNCHANGED <<patch, opts, prompts>>
           ELSE IF got.value = <<>>
           THEN /\ console' = Append(console, "Patch not found.")
                /\ exitCode' = 1
                /\ pc' = "exited"
                /\ UNCHANGED <<patch, opts, prompts>>
           ELSE /\ patch' = got.value
                /\ opts' = WorkflowOptions(argv')
                /\ console' = console \o <<"Applying patch", "Patch Summary">>
                /\ prompts' = Append(prompts, "confirmApply")
                /\ pc' = "confirmApply"
                /\ UNCHANGED exitCode
    /\ UNCHANGED <<call, disk, idx, appliedFiles, answers, commitMessage, repo, execLog,
                   commits, remote, returnedAt>>

-----------------------------------------------------------------------------
(* CommitWorkflow.applyPatch, step 1: answer to 'Apply this patch to your  *)
(* workspace?' (lines 73-88)                                                *)

\* mutant: the answer to the apply confirmation is ignored
ProceedsToApply_Ignored(ans) == TRUE

\* line 82: if (!confirmApply) return
ProceedsToApply(ans) == ans

AnswerConfirmApply(ans) ==
    /\ pc = "confirmApply"
    /\ answers' = [answers EXCEPT !.confirmApply = YesNo(ans)]
    /\ IF ProceedsToApply(ans)
       THEN /\ console' = Append(console, "Applying patch...")
            /\ pc' = "applying"
            /\ idx' = 1
            /\ appliedFiles' = <<>>
            /\ UNCHANGED <<returnedAt, exitCode>>
       ELSE /\ Return(84, <<"Patch application cancelled.">>)
            /\ UNCHANGED <<idx, appliedFiles>>
    /\ UNCHANGED <<call, disk, dirs, argv, patch, opts, prompts, commitMessage, repo, execLog,
                   commits, remote>>

-----------------------------------------------------------------------------
(* PatchManager.applyPatch: one iteration of the loop over patch.files      *)
(* (lines 200-222); an exception leaves the loop and is caught by           *)
(* CommitWorkflow.applyPatch (lines 98-100)                                 *)

ApplyThrows ==
    /\ Return(100, <<"Failed to apply patch">>)
    /\ UNCHANGED <<idx, appliedFiles>>

\* the place an I/O error unrelated to the paths may hit: mkdir, the open of
\* fs.writeFile (permissions), or its write once the open has truncated the file
\* (full disk)
FailPoints(fc) ==
    IF IsCreateWithDiff(fc) THEN {"none", "mkdir", "open", "write"}
    ELSE {"none", "mkdir"}

\* mutant: the write that reports a failure has written the whole content
Truncated_Complete(c, n) == c

\* what a write that fails after n characters leaves in the file
Truncated(c, n) == SubSeq(c, 1, n)

\* mutant: the loop stays on the same entry
NextEntry_Same(i) == i

\* part_005 line 200: for (const file of patch.files) goes on to the next entry
NextEntry(i) == i + 1

ApplyFile(fail, cut) ==
    /\ pc = "applying"
    /\ idx <= Len(Files)
    /\ LET fc == Files[idx]
           targetPath == TargetPath(fc)
           targetDir == Dirname(targetPath)
           made == dirs \cup Prefixes(targetDir)
       IN  /\ fail \in FailPoints(fc)
           /\ fail = "write" => cut < Len(ReconstructContent(fc.diff))
           /\ fail # "write" => cut = 0
           /\ IF fail = "mkdir" \/ ~MkdirOk(targetDir, disk)
              THEN /\ ApplyThrows
                   /\ UNCHANGED <<disk, dirs>>
              ELSE /\ dirs' = made
                   /\ IF IsCreateWithDiff(fc)
                      THEN IF fail = "open" \/ ~WriteOk(targetPath, made)
                           THEN /\ ApplyThrows
                                /\ UNCHANGED disk
                           ELSE IF fail = "write"
                           THEN /\ ApplyThrows
                                /\ disk' = WriteFile(disk, targetPath,
                                       TextFile(Truncated(ReconstructContent(fc.diff), cut)))
                           ELSE /\ disk' = WriteFile(disk, targetPath,
                                               TextFile(ReconstructContent(fc.diff)))
                                /\ appliedFiles' = Append(appliedFiles, fc.path)
                                /\ idx' = NextEntry(idx)
                                /\ UNCHANGED <<pc, console, returnedAt, exitCode>>
                      ELSE /\ console' =
                                 IF IsModifyWithDiff(fc)
                                 THEN Append(console, ModifyWarning)
                                 ELSE console
                           /\ idx' = NextEntry(idx)
                           /\ UNCHANGED <<disk, appliedFiles, pc, returnedAt, exitCode>>
    /\ UNCHANGED <<call, argv, patch, opts, prompts, answers, commitMessage, repo, execLog,
                   commits, remote>>

-----------------------------------------------------------------------------
(* CommitWorkflow.applyPatch, steps 2-3: PatchManager.applyPatch returned   *)
(* (lines 92-108)                                                           *)

\* mutant: the empty result of PatchManager.applyPatch does not stop the workflow
NothingApplied_Never(applied) == FALSE

\* line 94: appliedFiles.length === 0
NothingApplied(applied) == Len(applied) = 0

\* mutant: the repository check never stops the workflow
StopsWithoutRepo_Never(isRepo) == FALSE

\* line 104: if (!this.isGitRepo())
StopsWithoutRepo(isRepo) == ~isRepo

ApplyReturned(isRepo) ==
    /\ pc = "applying"
    /\ idx > Len(Files)
    /\ IF NothingApplied(appliedFiles)
       THEN /\ Return(96, <<"Applied n file(s)", "No files were modified.">>)
            /\ UNCHANGED <<repo, execLog>>
       ELSE /\ repo' = YesNo(isRepo)
            /\ execLog' = Append(execLog, "rev-parse")
            /\ IF StopsWithoutRepo(isRepo)
               THEN Return(107, <<"Applied n file(s)", "Not in a git repository.",
                                  "Files have been written to disk.">>)
               ELSE /\ console' = Append(console, "Applied n file(s)")
                    /\ pc' = "status"
                    /\ UNCHANGED <<returnedAt, exitCode>>
    /\ UNCHANGED <<call, disk, dirs, argv, patch, opts, idx, appliedFiles, prompts, answers,
                   commitMessage, commits, remote>>

-----------------------------------------------------------------------------
(* CommitWorkflow.applyPatch, step 4: git status --short, then the          *)
(* skipCommit check and the commit prompt (lines 111-132)                   *)

\* mutant: auto-push overrides skip-commit
SkipsCommit_UnlessAutoPush(o) == o.skipCommit /\ ~o.autoPush

\* line 119: if (skipCommit)
SkipsCommit(o) == o.skipCommit

ShowStatus(ok) ==
    /\ pc = "status"
    /\ execLog' = Append(execLog, "status")
    /\ LET shown == IF ok THEN "Git Status" ELSE "Failed to get git status"
       IN  IF SkipsCommit(opts)
           THEN /\ Return(121, <<shown, "Skipping commit (--no-commit flag set)">>)
                /\ UNCHANGED prompts
           ELSE /\ console' = Append(console, shown)
                /\ prompts' = Append(prompts, "shouldCommit")
                /\ pc' = "confirmCommit"
                /\ UNCHANGED <<returnedAt, exitCode>>
    /\ UNCHANGED <<call, disk, dirs, argv, patch, opts, idx, appliedFiles, answers, commitMessage,
                   repo, commits, remote>>

-----------------------------------------------------------------------------
(* step 5: answer to 'Commit these changes?' (lines 134-151)                *)

\* mutant: the answer to the commit confirmation is ignored
CommitConfirmed_Ignored(ans) == TRUE

\* line 134: if (!shouldCommit)
CommitConfirmed(ans) == ans

AnswerConfirmCommit(ans) ==
    /\ pc = "confirmCommit"
    /\ answers' = [answers EXCEPT !.shouldCommit = YesNo(ans)]
    /\ IF CommitConfirmed(ans)
       THEN /\ prompts' = Append(prompts, "commitMessage")
            /\ pc' = "editMessage"
            /\ UNCHANGED <<console, returnedAt, exitCode>>
       ELSE /\ Return(137, <<"Changes applied but not committed.",
                             "You can commit manually with: git add . && git commit">>)
            /\ UNCHANGED prompts
    /\ UNCHANGED <<call, disk, dirs, argv, patch, opts, idx, appliedFiles, commitMessage, repo,
                   execLog, commits, remote>>

\* step 6: the editor prompt returns the message (lines 143-151)
Messages ==
    IF Len(patch) = 1 THEN {SuggestedMessage(patch[1]), <<"edited">>} ELSE {}

AnswerCommitMessage(msg) ==
    /\ pc = "editMessage"
    /\ commitMessage' = msg
    /\ pc' = "stageCommit"
    /\ UNCHANGED <<call, disk, dirs, argv, patch, opts, idx, appliedFiles, prompts, answers, repo,
                   execLog, commits, remote, console, returnedAt, exitCode>>

-----------------------------------------------------------------------------
(* step 7: git add . and git commit, then the auto-push check and the push  *)
(* prompt (lines 154-181)                                                   *)

\* line 159: commitMessage.replace(/"/g, '\\"')
RECURSIVE EscapeQuotes(_)
EscapeQuotes(msg) ==
    IF Len(msg) = 0 THEN <<>>
    ELSE (IF msg[1] = DQ THEN <<BS, DQ>> ELSE <<msg[1]>>) \o EscapeQuotes(Tail(msg))

\* line 159: the text after `git commit -m ` in the command execSync hands to
\* the shell
MessageArgument(msg) == <<DQ>> \o EscapeQuotes(msg) \o <<DQ>>

\* the shell reading that text from position i: inside double quotes a
\* backslash escapes a quote or a backslash, and with a line break is dropped;
\* outside them it escapes any character; an unquoted line break ends the
\* command and the rest is the next command line. The word is what git gets
\* as the message; ok is FALSE when the text ends inside a quoted string
RECURSIVE ShellWord(_, _, _, _)
ShellWord(s, i, quoted, word) ==
    IF i > Len(s) THEN [ok |-> ~quoted, word |-> word, rest |-> <<>>]
    ELSE IF s[i] = DQ THEN ShellWord(s, i + 1, ~quoted, word)
    ELSE IF s[i] = BS
    THEN IF i = Len(s) THEN ShellWord(s, i + 1, quoted, Append(word, BS))
         ELSE IF s[i + 1] = NL THEN ShellWord(s, i + 2, quoted, word)
         ELSE IF ~quoted \/ s[i + 1] \in {DQ, BS}
         THEN ShellWord(s, i + 2, quoted, Append(word, s[i + 1]))
         ELSE ShellWord(s, i + 1, quoted, Append(word, BS))
    ELSE IF s[i] = NL /\ ~quoted
    THEN [ok |-> TRUE, word |-> word, rest |-> SubSeq(s, i + 1, Len(s))]
    ELSE ShellWord(s, i + 1, quoted, Append(word, s[i]))

\* the shell's reading of the commit command for this message
CommitCommand(msg) == ShellWord(MessageArgument(msg), 1, FALSE, <<>>)

\* the command line is one `git commit -m <word>` and nothing else
RunsOneCommit(sh) == sh.ok /\ sh.rest = <<>>

\* git commit aborts on a message that is empty or only line breaks
GitAccepts(word) == \E i \in 1..Len(word) : word[i] # NL

\* "commitThenFails": git commit runs, and a later line of the command fails
CommitOutcomes == {"ok", "addFails", "commitFails", "commitThenFails"}

\* mutant: a failure of git add or git commit is swallowed
CommitSucceeded_Always(outcome) == TRUE

\* lines 154-165: the try block completes only if both commands succeed
CommitSucceeded(outcome) == outcome = "ok"

\* line 168: if (autoPush)
PushesWithoutPrompt(o) == o.autoPush

StageAndCommit(outcome) ==
    /\ pc = "stageCommit"
    /\ execLog' = IF outcome = "addFails" THEN Append(execLog, "add")
                  ELSE execLog \o <<"add", "commit">>
    /\ LET sh == CommitCommand(commitMessage)
       IN  /\ outcome = "ok" => (RunsOneCommit(sh) /\ GitAccepts(sh.word))
           /\ outcome = "commitThenFails" =>
                 (sh.ok /\ sh.rest # <<>> /\ GitAccepts(sh.word))
           /\ commits' = IF outcome \in {"ok", "commitThenFails"}
                          THEN Append(commits, sh.word)
                          ELSE commits
    /\ IF CommitSucceeded(outcome)
       THEN /\ UNCHANGED <<returnedAt, exitCode>>
            /\ IF PushesWithoutPrompt(opts)
               THEN /\ console' = console \o <<"Changes committed", "Auto-pushing to remote...">>
                    /\ pc' = "pushing"
                    /\ UNCHANGED prompts
               ELSE /\ console' = Append(console, "Changes committed")
                    /\ prompts' = Append(prompts, "shouldPush")
                    /\ pc' = "confirmPush"
       ELSE /\ Return(164, <<"Commit failed">>)
            /\ UNCHANGED prompts
    /\ UNCHANGED <<call, disk, dirs, argv, patch, opts, idx, appliedFiles, answers, commitMessage,
                   repo, remote>>

-----------------------------------------------------------------------------
(* step 8: answer to 'Push changes to remote?' (lines 183-188)              *)

\* line 183: if (shouldPush)
PushConfirmed(ans) == ans

AnswerConfirmPush(ans) ==
    /\ pc = "confirmPush"
    /\ answers' = [answers EXCEPT !.shouldPush = YesNo(ans)]
    /\ IF PushConfirmed(ans)
       THEN /\ pc' = "pushing"
            /\ UNCHANGED <<execLog, console, returnedAt, exitCode>>
       ELSE /\ execLog' = Append(execLog, "branch")
            /\ Return(189, <<"Changes committed but not pushed.",
                             "You can push manually with: git push origin <branch>">>)
    /\ UNCHANGED <<call, disk, dirs, argv, patch, opts, idx, appliedFiles, prompts, commitMessage,
                   repo, commits, remote>>

-----------------------------------------------------------------------------
(* CommitWorkflow.pushChanges (lines 195-214) and the return of applyPatch  *)
(* that follows it (line 171 after auto-push, line 189 after the prompt)    *)

PushOutcomes == {"ok", "noRemote", "rejected"}

\* mutant: the success line is printed after the try block, failure or not
PushReport_AlwaysSuccess(outcome) == <<"Successfully pushed">>

\* lines 200-213: every failure of the two commands is caught and reported
PushReport(outcome) ==
    IF outcome = "ok" THEN <<"Successfully pushed">>
    ELSE <<"Push failed", "You may need to:", "Set up a remote: git remote add origin <url>",
           "Push manually: git push origin <branch>">>

PushChanges(outcome) ==
    /\ pc = "pushing"
    /\ execLog' = execLog \o
                  IF outcome = "noRemote" THEN <<"branch", "remote get-url">>
                  ELSE <<"branch", "remote get-url", "push">>
    /\ remote' = IF outcome = "ok" THEN Len(commits) ELSE remote
    /\ Return(IF opts.autoPush THEN 171 ELSE 189,
              <<"Pushing to origin/<branch>">> \o PushReport(outcome))
    /\ UNCHANGED <<call, disk, dirs, argv, patch, opts, idx, appliedFiles, prompts, answers,
                   commitMessage, repo, commits>>

-----------------------------------------------------------------------------

Next ==
    \/ \E name \in PatchNames, noCommit \in BOOLEAN, autoPushFlag \in BOOLEAN :
          ApplyCommand(name, noCommit, autoPushFlag)
    \/ \E ans \in BOOLEAN : AnswerConfirmApply(ans)
    \/ \E fail \in {"none", "mkdir", "open", "write"}, cut \in 0..MaxLen :
          ApplyFile(fail, cut)
    \/ \E isRepo \in BOOLEAN : ApplyReturned(isRepo)
    \/ \E ok \in BOOLEAN : ShowStatus(ok)
    \/ \E ans \in BOOLEAN : AnswerConfirmCommit(ans)
    \/ \E msg \in Messages : AnswerCommitMessage(msg)
    \/ \E outcome \in CommitOutcomes : StageAndCommit(outcome)
    \/ \E ans \in BOOLEAN : AnswerConfirmPush(ans)
    \/ \E outcome \in PushOutcomes : PushChanges(outcome)

Spec == Init /\ [][Next]_vars

\* every prompt is answered and every command returns: a step that can be taken
\* is taken
FairSpec == InitWith(OperationPatches) /\ [][Next]_vars /\ WF_vars(Next)


-----------------------------------------------------------------------------
(* The patch store: the methods of PatchManager called one after another on *)
(* one store                                                                *)

StoreNames == {"p1", "p2"}

\* names of the records of a store that is listed
ListNames == {"p1", "p2", "p3"}

Timestamps == (-1)..MaxTime

\* Date.now() at the time of the calls: later than every timestamp given
Now == MaxTime + 1

\* an argument field is <<>> when undefined and <<v>> when it has the value v
SaveShapes ==
    { [description |-> <<>>, files |-> <<>>, metadata |-> <<>>],
      [description |-> <<"">>, files |-> << <<>> >>, metadata |-> <<"{}">>],
      [description |-> <<"fix">>,
       files |-> << <<FileChange(PathB, "create", <<"+", "x">>),
                      FileChange(PathA, "modify", <<"-", "x", NL, "+", "x">>)>> >>,
       metadata |-> <<"{source: n8n}">>] }

\* the arguments of savePatch
SaveArgsOf(names) ==
    {[name |-> n, timestamp |-> t, description |-> sh.description,
      files |-> sh.files, metadata |-> sh.metadata] :
        n \in names,
        t \in {<<>>} \cup {<<ts>> : ts \in Timestamps},
        sh \in SaveShapes}

SaveArgs == SaveArgsOf(StoreNames)

\* JavaScript truthiness of a timestamp field: undefined and 0 are falsy
TruthyNumber(f) == f # <<>> /\ f # <<0>>

\* JavaScript truthiness of a string field: undefined and '' are falsy
TruthyString(f) == f # <<>> /\ f # <<"">>

\* JavaScript truthiness of an array or object field: only undefined is falsy
TruthyObject(f) == f # <<>>

\* savePatch line 86: patch.timestamp || Date.now()
PatchTimestamp(arg, now) ==
    IF TruthyNumber(arg.timestamp) THEN arg.timestamp[1] ELSE now

\* savePatch line 88: patch.files || []
PatchFiles(arg) == IF TruthyObject(arg.files) THEN arg.files[1] ELSE <<>>

\* savePatch lines 84-90
PatchData(arg, now) ==
    [name |-> arg.name,
     timestamp |-> PatchTimestamp(arg, now),
     description |-> IF TruthyString(arg.description) THEN arg.description[1] ELSE "",
     files |-> PatchFiles(arg),
     metadata |-> IF TruthyObject(arg.metadata) THEN arg.metadata[1] ELSE "{}"]

\* what fs.writeFile leaves of a JSON document when it fails after the open
TruncatedJson == TextFile(<<"{">>)

\* a file of the store directory that is no patch record
NotesPath == Append(PatchesDir, "notes.txt")

\* f.endsWith('.json') on the files of the store directory
EndsWithJson(p) == \E n \in ListNames : p = StorePath(n)

\* fs.readdir(patchesDir) filtered at line 39
PatchFilesOf(files) == {p \in DOMAIN files : Dirname(p) = PatchesDir /\ EndsWithJson(p)}

\* the orders in which fs.readdir may return the members of s
Orders(s) ==
    {o \in [1..Cardinality(s) -> s] : \A i, j \in 1..Cardinality(s) : o[i] = o[j] => i = j}

\* mutant: oldest first
Before_Ascending(a, b) == a.timestamp - b.timestamp > 0

\* line 49: the comparator (a, b) => b.timestamp - a.timestamp puts b before a
\* when it is positive
Before(a, b) == b.timestamp - a.timestamp > 0

\* Array.prototype.sort is stable: x goes before the first element it must precede
RECURSIVE Insert(_, _)
Insert(x, sorted) ==
    IF Len(sorted) = 0 THEN <<x>>
    ELSE IF Before(sorted[1], x) THEN <<x>> \o sorted
    ELSE <<sorted[1]>> \o Insert(x, Tail(sorted))

RECURSIVE SortPatches(_)
SortPatches(ps) ==
    IF Len(ps) = 0 THEN <<>>
    ELSE Insert(ps[Len(ps)], SortPatches(SubSeq(ps, 1, Len(ps) - 1)))

\* JSON.parse of a stored file succeeds
Parses(file) == Len(file.json) = 1

\* error.message of the SyntaxError JSON.parse throws: it is made from the text
\* parsed, the only argument JSON.parse is given at line 44
ParseErrorMessage(file) == <<"SyntaxError">> \o file.text

\* listPatches lines 37-52 on the files readdir returned in this order; detail is
\* the ${error.message} of line 51
ListPatches(files, order) ==
    LET bad == {i \in 1..Len(order) : ~Parses(files[order[i]])}
    IN  IF bad # {}
        THEN [threw |-> TRUE, value |-> <<>>,
              detail |-> ParseErrorMessage(
                             files[order[CHOOSE i \in bad : \A j \in bad : i <= j]])]
        ELSE [threw |-> FALSE,
              value |-> SortPatches([i \in 1..Len(order) |-> files[order[i]].json[1]]),
              detail |-> <<>>]

\* mutant: the file stays
Unlink_Nothing(files, paths) == files

\* fs.unlink of the entries of paths that exist
Unlink(files, paths) == [q \in DOMAIN files \ paths |-> files[q]]

\* the outcome of a method: error is the message it threw with, "" when it returned
Called(op, name, error) ==
    [op |-> op, name |-> name, threw |-> error # "", error |-> error, detail |-> <<>>,
     input |-> <<>>, patches |-> <<>>, flag |-> FALSE, count |-> 0]

\* the message of the error a failing JSON.parse or file operation ends with
ErrorIf(failed, message) == IF failed THEN message ELSE ""

\* mutant: creating the directory can fail although it exists
MkdirCanFail_Always(ds) == TRUE

\* fs.mkdir(dir, {recursive: true}) has nothing to create, and so nothing to
\* fail at, when the directory exists
MkdirCanFail(ds) == PatchesDir \notin ds

\* line 25
EnsureFailed == "Failed to create patches directory"

\* ensurePatchesDir at the start of a method: it throws, ending the method, or
\* leaves the directory in place
Ensure(fail, op, name) ==
    IF fail = "mkdir"
    THEN /\ MkdirCanFail(dirs)
         /\ call' = Called(op, name, EnsureFailed)
         /\ UNCHANGED <<disk, dirs>>
    ELSE dirs' = EnsurePatchesDir(dirs)

Frozen ==
    UNCHANGED <<pc, argv, patch, opts, idx, appliedFiles, prompts, answers, commitMessage,
                repo, execLog, commits, remote, console, returnedAt, exitCode>>


\* ensurePatchesDir (lines 20-28)
EnsurePatchesDirCall(fail) ==
    /\ fail \in {"none", "mkdir"}
    /\ Ensure(fail, "ensurePatchesDir", "")
    /\ fail = "none" =>
          /\ call' = Called("ensurePatchesDir", "", "")
          /\ UNCHANGED disk
    /\ Frozen

\* savePatch (lines 81-100)
SavePatchCall(arg, fail) ==
    /\ fail \in {"none", "mkdir", "open", "write"}
    /\ Ensure(fail, "savePatch", arg.name)
    /\ fail # "mkdir" =>
          LET patchData == PatchData(arg, Now)
              patchPath == StorePath(arg.name)
          IN  /\ disk' = IF fail = "none" THEN WriteFile(disk, patchPath, JsonFile(patchData))
                         ELSE IF fail = "write" THEN WriteFile(disk, patchPath, TruncatedJson)
                         ELSE disk
              /\ call' = [Called("savePatch", arg.name,
                                     ErrorIf(fail # "none", "Failed to save patch")) EXCEPT
                             !.input = <<arg>>,
                             !.patches = IF fail = "none" THEN <<patchData>> ELSE <<>>]
    /\ Frozen

\* getPatch (lines 60-74)
GetPatchCall(name, fail) ==
    /\ fail \in {"none", "mkdir"}
    /\ Ensure(fail, "getPatch", name)
    /\ fail = "none" =>
          LET got == GetPatch(name)
          IN  /\ call' = [Called("getPatch", name,
                                     ErrorIf(got.threw, "Failed to read patch")) EXCEPT
                             !.patches = got.value]
              /\ UNCHANGED disk
    /\ Frozen

\* deletePatch (lines 160-174)
DeletePatchCall(name, fail) ==
    /\ fail \in {"none", "mkdir", "unlink"}
    /\ Ensure(fail, "deletePatch", name)
    /\ fail # "mkdir" =>
          LET patchPath == StorePath(name)
              existed == patchPath \in DOMAIN disk
          IN  /\ fail = "unlink" => existed
              /\ disk' = IF fail = "none" THEN Unlink(disk, {patchPath}) ELSE disk
              /\ call' = [Called("deletePatch", name,
                                     ErrorIf(fail # "none", "Failed to delete patch")) EXCEPT
                             !.flag = (fail = "none" /\ existed)]
    /\ Frozen

\* listPatches (lines 34-53)
ListPatchesCall(order, fail) ==
    /\ fail \in {"none", "mkdir"}
    /\ Ensure(fail, "listPatches", "")
    /\ fail = "none" =>
          LET listed == ListPatches(disk, order)
          IN  /\ call' = [Called("listPatches", "",
                                     ErrorIf(listed.threw, "Failed to list patches")) EXCEPT
                             !.patches = listed.value,
                             !.detail = listed.detail]
              /\ UNCHANGED disk
    /\ Frozen

\* the paths deletePatch unlinks for the first n patches of a list
PathsOf(patches, n) == {StorePath(patches[i].name) : i \in 1..n}

\* clearPatches (lines 180-190); the unlink of the failAt-th deletePatch fails,
\* none when failAt is 0
ClearPatchesCall(order, failAt, fail) ==
    /\ fail \in {"none", "mkdir"}
    /\ fail = "mkdir" => failAt = 0
    /\ Ensure(fail, "clearPatches", "")
    /\ fail = "none" =>
          LET listed == ListPatches(disk, order)
              patches == listed.value
          IN  IF listed.threw
              THEN /\ failAt = 0
                   /\ call' = [Called("clearPatches", "", "Failed to list patches") EXCEPT
                                  !.detail = listed.detail]
                   /\ UNCHANGED disk
              ELSE IF failAt > 0
              THEN /\ failAt <= Len(patches)
                   /\ StorePath(patches[failAt].name)
                          \in DOMAIN disk \ PathsOf(patches, failAt - 1)
                   /\ disk' = Unlink(disk, PathsOf(patches, failAt - 1))
                   /\ call' = Called("clearPatches", "", "Failed to delete patch")
              ELSE /\ disk' = Unlink(disk, PathsOf(patches, Len(patches)))
                   /\ call' = [Called("clearPatches", "", "") EXCEPT
                                  !.count = Len(patches)]
    /\ Frozen

\* the store absent, empty, or holding only a file that is no record
InitStore ==
    /\ \/ /\ disk = InitWorkspace
          /\ dirs = {<<>>}
       \/ /\ disk = InitWorkspace
          /\ dirs = Prefixes(PatchesDir)
       \/ /\ disk = InitWorkspace @@ (NotesPath :> TextFile(<<"x">>))
          /\ dirs = Prefixes(PatchesDir)
    /\ pc = "cli"
    /\ argv = [noCommit |-> FALSE, autoPush |-> FALSE]
    /\ patch = <<>>
    /\ opts = [skipCommit |-> FALSE, autoPush |-> FALSE]
    /\ idx = 0
    /\ appliedFiles = <<>>
    /\ prompts = <<>>
    /\ answers = NoAnswers
    /\ commitMessage = <<>>
    /\ repo = "unknown"
    /\ execLog = <<>>
    /\ commits = <<>>
    /\ remote = 0
    /\ console = <<>>
    /\ returnedAt = 0
    /\ exitCode = -1
    /\ call = NoCall

StoreFails == {"none", "mkdir", "open", "write", "unlink"}

NextStore ==
    \/ \E fail \in StoreFails : EnsurePatchesDirCall(fail)
    \/ \E arg \in SaveArgs, fail \in StoreFails : SavePatchCall(arg, fail)
    \/ \E name \in StoreNames, fail \in StoreFails : GetPatchCall(name, fail)
    \/ \E name \in StoreNames, fail \in StoreFails : DeletePatchCall(name, fail)
    \/ \E order \in Orders(PatchFilesOf(disk)), fail \in StoreFails :
          ListPatchesCall(order, fail)
    \/ \E order \in Orders(PatchFilesOf(disk)), failAt \in 0..Cardinality(StoreNames),
          fail \in StoreFails :
          ClearPatchesCall(order, failAt, fail)

SpecStore == InitStore /\ [][NextStore]_vars

\* the names the methods are given when a name may hold path separators
GivenNames == {"p1", TraversalName}

NextGiven ==
    \/ \E fail \in StoreFails : EnsurePatchesDirCall(fail)
    \/ \E arg \in SaveArgsOf(GivenNames), fail \in StoreFails : SavePatchCall(arg, fail)
    \/ \E name \in GivenNames, fail \in StoreFails : GetPatchCall(name, fail)
    \/ \E name \in GivenNames, fail \in StoreFails : DeletePatchCall(name, fail)
    \/ \E order \in Orders(PatchFilesOf(disk)), fail \in StoreFails :
          ListPatchesCall(order, fail)
    \/ \E order \in Orders(PatchFilesOf(disk)), failAt \in 0..Cardinality(GivenNames),
          fail \in StoreFails :
          ClearPatchesCall(order, failAt, fail)

SpecGiven == InitStore /\ [][NextGiven]_vars


-----------------------------------------------------------------------------
(* listPatches on the stores an external producer may have filled *)

\* a record as a producer writes it, timestamp 0 and the present included
ProducedRecord(n, t) ==
    [name |-> n, timestamp |-> t, description |-> "", files |-> <<>>, metadata |-> "{}"]

\* the store contents: each name absent (<<>>) or holding the record of a timestamp
ProducedStores == [ListNames -> {<<>>} \cup {<<t>> : t \in (-1)..Now}]

DiskOf(s) ==
    LET held == {n \in ListNames : s[n] # <<>>}
    IN  [p \in {PathA, NotesPath} \cup {StorePath(n) : n \in held} |->
            IF p = PathA THEN InitWorkspace[PathA]
            ELSE IF p = NotesPath THEN TextFile(<<"x">>)
            ELSE LET n == CHOOSE m \in held : StorePath(m) = p
                 IN  JsonFile(ProducedRecord(n, s[n][1]))]

InitList ==
    /\ \/ /\ disk = InitWorkspace
          /\ dirs = {<<>>}
       \/ \E s \in ProducedStores :
             /\ disk = DiskOf(s)
             /\ dirs = Prefixes(PatchesDir)
    /\ pc = "cli"
    /\ argv = [noCommit |-> FALSE, autoPush |-> FALSE]
    /\ patch = <<>>
    /\ opts = [skipCommit |-> FALSE, autoPush |-> FALSE]
    /\ idx = 0
    /\ appliedFiles = <<>>
    /\ prompts = <<>>
    /\ answers = NoAnswers
    /\ commitMessage = <<>>
    /\ repo = "unknown"
    /\ execLog = <<>>
    /\ commits = <<>>
    /\ remote = 0
    /\ console = <<>>
    /\ returnedAt = 0
    /\ exitCode = -1
    /\ call = NoCall

NextList ==
    \E order \in Orders(PatchFilesOf(disk)), fail \in StoreFails :
        ListPatchesCall(order, fail)

SpecList == InitList /\ [][NextList]_vars

-----------------------------------------------------------------------------
(* Two invocations on one store: listPatches of one, step by step, next to *)
(* deletePatch of another                                                   *)

\* error.message of the error fs.readFile rejects with when the file is gone
NoEntry == <<"ENOENT">>

\* mutant: no file can be read
Readable_Never(files, p) == FALSE

\* line 43: fs.readFile resolves when the file exists
Readable(files, p) == p \in DOMAIN files

\* what a listPatches call holds between its steps: the files readdir returned,
\* the records parsed so far, each <<>> until its file has been read, and the
\* records another invocation has removed since
Listing(order, read, removed) == [order |-> order, read |-> read, removed |-> removed]

\* lines 35-39: ensurePatchesDir, readdir and the filter on '.json'
ListReaddir(order) ==
    /\ pc = "cli"
    /\ call.op = "none"
    /\ order \in Orders(PatchFilesOf(disk))
    /\ pc' = "listing"
    /\ dirs' = EnsurePatchesDir(dirs)
    /\ call' = [call EXCEPT !.input = <<Listing(order, [i \in 1..Len(order) |-> <<>>], 0)>>]
    /\ UNCHANGED <<disk, argv, patch, opts, idx, appliedFiles, prompts, answers,
                   commitMessage, repo, execLog, commits, remote, console, returnedAt,
                   exitCode>>

\* lines 42-45: one of the reads Promise.all waits for settles; a rejected read
\* rejects the whole, and the catch of lines 50-52 throws
ListReadFile(i) ==
    /\ pc = "listing"
    /\ i \in 1..Len(call.input[1].order)
    /\ call.input[1].read[i] = <<>>
    /\ LET l == call.input[1]
           p == l.order[i]
       IN  IF ~Readable(disk, p)
           THEN /\ pc' = "cli"
                /\ call' = [Called("listPatches", "", "Failed to list patches") EXCEPT
                               !.detail = NoEntry, !.input = call.input]
           ELSE IF ~Parses(disk[p])
           THEN /\ pc' = "cli"
                /\ call' = [Called("listPatches", "", "Failed to list patches") EXCEPT
                               !.detail = ParseErrorMessage(disk[p]), !.input = call.input]
           ELSE /\ pc' = pc
                /\ call' = [call EXCEPT !.input[1].read[i] = disk[p].json]
    /\ UNCHANGED <<disk, dirs, argv, patch, opts, idx, appliedFiles, prompts, answers,
                   commitMessage, repo, execLog, commits, remote, console, returnedAt,
                   exitCode>>

\* line 49: every read has settled; the records are sorted and returned
ListReturn ==
    /\ pc = "listing"
    /\ \A i \in 1..Len(call.input[1].order) : call.input[1].read[i] # <<>>
    /\ pc' = "cli"
    /\ call' = [Called("listPatches", "", "") EXCEPT
                   !.patches = SortPatches([i \in 1..Len(call.input[1].order) |->
                                               call.input[1].read[i][1]]),
                   !.input = call.input]
    /\ UNCHANGED <<disk, dirs, argv, patch, opts, idx, appliedFiles, prompts, answers,
                   commitMessage, repo, execLog, commits, remote, console, returnedAt,
                   exitCode>>

\* deletePatch (lines 160-174) of another invocation, as the store sees it; the
\* listing in progress counts the records it lost
OtherDeletePatch(name) ==
    /\ dirs' = EnsurePatchesDir(dirs)
    /\ disk' = Unlink(disk, {StorePath(name)})
    /\ call' = IF pc = "listing" /\ StorePath(name) \in DOMAIN disk
               THEN [call EXCEPT !.input[1].removed = @ + 1]
               ELSE call
    /\ UNCHANGED <<pc, argv, patch, opts, idx, appliedFiles, prompts, answers,
                   commitMessage, repo, execLog, commits, remote, console, returnedAt,
                   exitCode>>

NextRace ==
    \/ \E order \in Orders(PatchFilesOf(disk)) : ListReaddir(order)
    \/ \E i \in 1..Cardinality(ListNames) : ListReadFile(i)
    \/ ListReturn
    \/ \E name \in ListNames : OtherDeletePatch(name)

SpecRace == InitList /\ [][NextRace]_vars

-----------------------------------------------------------------------------
(* The stage command: createPatchFromFiles on the files of a workspace *)

\* the number of file arguments of a command line
MaxPaths == 2

\* a path of the command line that names no file
PathM == <<"m.txt">>

StagePaths == {PathA, PathB, PathM}

\* the path as the string the command line gave
RECURSIVE PathName(_)
PathName(p) ==
    IF Len(p) = 1 THEN p[1] ELSE p[1] \o "/" \o PathName(Tail(p))

\* what `git diff HEAD -- <file>` meets: no repository (or no commit), a file
\* git does not track, a tracked file equal to HEAD, a tracked file that differs
GitStates == {"norepo", "untracked", "unchanged", "modified"}

\* one state for each existing file of a repository, or no repository at all
GitWorkspaces ==
    [{PathA, PathB} -> {"norepo"}]
        \cup [{PathA, PathB} -> {"untracked", "unchanged", "modified"}]

\* the text git prints for a tracked file that differs from HEAD
TrackedDiff == <<"-", "x", NL, "+", "x">>

\* execSync at lines 122-127: it throws when git exits with an error, which
\* git does outside a repository; inside one git prints the difference of a
\* tracked file and nothing for a file it does not track or that equals HEAD
GitDiffHead(git) ==
    [threw |-> git = "norepo",
     out |-> IF git = "modified" THEN TrackedDiff ELSE <<>>]

\* line 131: the diff made of the content when git diff threw
NewFileDiff(p, content) ==
    <<"-", "-", "-", " ", "/dev/null", NL, "+", "+", "+", " ", "b/" \o PathName(p), NL>>
        \o PlusPrefixed(content)

\* line 145: console.warn
StageWarning(p) == "Warning: Could not process file " \o PathName(p)

\* line 136: diff ? 'modify' : 'create'
Operation(diff) == IF Len(diff) > 0 THEN "modify" ELSE "create"

\* lines 144-146: the catch of one path
Skipped(p) == [files |-> <<>>, warned |-> <<StageWarning(p)>>, aborted |-> FALSE]

\* lines 113-146, the body of the loop for one path: fs.access fails on a
\* missing file, fs.readFile on one that cannot be read; the size of the entry
\* (fs.stat) is left out of the file change
StageFile(p, files, git, unreadable) ==
    IF p \notin DOMAIN files THEN Skipped(p)
    ELSE LET exec == GitDiffHead(git[p])
         IN  IF exec.threw /\ p \in unreadable THEN Skipped(p)
             ELSE LET diff == IF exec.threw THEN NewFileDiff(p, files[p].text)
                              ELSE exec.out
                  IN  [files |-> <<FileChange(p, Operation(diff), diff)>>,
                       warned |-> <<>>, aborted |-> FALSE]

\* lines 111-147: the loop over filePaths
RECURSIVE StagedFiles(_, _, _, _)
StagedFiles(filePaths, files, git, unreadable) ==
    IF Len(filePaths) = 0 THEN [files |-> <<>>, warned |-> <<>>, aborted |-> FALSE]
    ELSE LET one == StageFile(filePaths[1], files, git, unreadable)
             rest == StagedFiles(Tail(filePaths), files, git, unreadable)
         IN  IF one.aborted THEN one
             ELSE [files |-> one.files \o rest.files,
                   warned |-> one.warned \o rest.warned,
                   aborted |-> rest.aborted]

\* part_006 line 140: `manual-patch-${Date.now()}`
ManualName == "manual-patch-now"

\* the command lines of stage: at most MaxPaths paths
CommandLines ==
    UNION {[1..n -> StagePaths] : n \in 1..MaxPaths}

\* `pcamaw stage <files...> [--name <name>]` (part_006 lines 138-156) with
\* createPatchFromFiles (part_005 lines 108-153) and its savePatch; git prints
\* no difference for a file it cannot read, so an unreadable file is never in
\* the state "modified"
StageCommand(filePaths, name, git, unreadable, fail) ==
    /\ pc = "cli"
    /\ fail \in {"none", "mkdir", "open", "write"}
    /\ fail = "mkdir" => MkdirCanFail(dirs)
    /\ \A p \in unreadable : git[p] # "modified"
    /\ LET patchName == IF TruthyString(name) THEN name[1] ELSE ManualName
           staged == StagedFiles(filePaths, disk, git, unreadable)
           arg == [name |-> patchName, timestamp |-> <<Now>>,
                   description |-> <<"Manually staged files">>,
                   files |-> <<staged.files>>, metadata |-> <<>>]
           patchData == PatchData(arg, Now)
           patchPath == StorePath(patchName)
       IN  /\ dirs' = IF fail = "mkdir" THEN dirs ELSE EnsurePatchesDir(dirs)
           /\ disk' = IF fail = "none" THEN WriteFile(disk, patchPath, JsonFile(patchData))
                      ELSE IF fail = "write" THEN WriteFile(disk, patchPath, TruncatedJson)
                      ELSE disk
           /\ console' = console \o <<"Creating patch: " \o patchName>>
                                 \o (IF fail = "mkdir" THEN <<>> ELSE staged.warned)
                                 \o (IF fail = "none" THEN <<"Patch created: " \o patchName>>
                                     ELSE <<"Error staging files">>)
           /\ exitCode' = IF fail = "none" THEN 0 ELSE 1
           /\ call' = [Called("createPatchFromFiles", patchName,
                              IF fail = "none" THEN ""
                              ELSE IF fail = "mkdir" THEN EnsureFailed
                              ELSE "Failed to save patch") EXCEPT
                          !.input = <<[filePaths |-> filePaths, name |-> name, git |-> git,
                                       unreadable |-> unreadable]>>,
                          !.patches = IF fail = "none" THEN <<patchData>> ELSE <<>>]
    /\ pc' = "exited"
    /\ UNCHANGED <<argv, patch, opts, idx, appliedFiles, prompts, answers, commitMessage,
                   repo, execLog, commits, remote, returnedAt>>

\* the contents of a.txt: the empty file, one character, lines with and without
\* a leading '+', a final line break
StageContents ==
    {c \in Texts : Len(c) <= 1} \cup {<<"x", NL, "+">>, <<"+", "x", NL>>}

\* a workspace of two files, the store absent or empty
InitStage ==
    /\ \E c \in StageContents :
          disk = (PathA :> TextFile(c)) @@ (PathB :> TextFile(<<"x">>))
    /\ dirs \in {{<<>>, Dirname(PathB)}, Prefixes(PatchesDir) \cup {Dirname(PathB)}}
    /\ pc = "cli"
    /\ argv = [noCommit |-> FALSE, autoPush |-> FALSE]
    /\ patch = <<>>
    /\ opts = [skipCommit |-> FALSE, autoPush |-> FALSE]
    /\ idx = 0
    /\ appliedFiles = <<>>
    /\ prompts = <<>>
    /\ answers = NoAnswers
    /\ commitMessage = <<>>
    /\ repo = "unknown"
    /\ execLog = <<>>
    /\ commits = <<>>
    /\ remote = 0
    /\ console = <<>>
    /\ returnedAt = 0
    /\ exitCode = -1
    /\ call = NoCall

NextStage ==
    \E filePaths \in CommandLines, name \in {<<>>, <<"p1">>}, git \in GitWorkspaces,
       unreadable \in SUBSET {PathA}, fail \in StoreFails :
        StageCommand(filePaths, name, git, unreadable, fail)

SpecStage == InitStage /\ [][NextStage]_vars

-----------------------------------------------------------------------------
(* A staged patch applied where its files are absent *)

\* PatchManager.applyPatch (part_005 lines 197-199) is called with the patch
\* createPatchFromFiles returned, on the workspace without the files the patch
\* names; the call keeps the workspace the patch was staged from
ApplyStaged ==
    /\ pc = "exited"
    /\ call.op = "createPatchFromFiles"
    /\ call.error = ""
    /\ Len(call.input) = 1
    /\ LET staged == call.patches[1]
       IN  /\ patch' = <<staged>>
           /\ disk' = Unlink(disk, {staged.files[i].path : i \in 1..Len(staged.files)})
    /\ pc' = "applying"
    /\ idx' = 1
    /\ appliedFiles' = <<>>
    /\ call' = [call EXCEPT !.input = Append(call.input, disk)]
    /\ UNCHANGED <<dirs, argv, opts, prompts, answers, commitMessage, repo, execLog,
                   commits, remote, console, returnedAt, exitCode>>

NextRoundTrip ==
    \/ NextStage
    \/ ApplyStaged
    \/ \E fail \in {"none", "mkdir", "open", "write"}, cut \in 0..MaxLen : ApplyFile(fail, cut)

SpecRoundTrip == InitStage /\ [][NextRoundTrip]_vars

-----------------------------------------------------------------------------
(* VSCodeIntegration: the methods that launch the editor *)

\* the launches and messages after which a process calls the bridge no more
MaxEvents == 3

\* execSync of a `code ...` command returns or throws
LaunchOutcomes == {"ok", "fails"}

\* openPatch line 83: setTimeout(resolve, 1000)
SettleDelay == 1000

\* the directory the bridge resolves paths against: process.cwd()
WorkspaceRoot == <<>>

\* a launch that was issued: the paths handed to the editor, the milliseconds
\* the method had waited before it, and how it ended
Launch(cmd, args, after, outcome) ==
    [cmd |-> cmd, args |-> args, after |-> after, outcome |-> outcome]

\* filePaths.map(f => path.join(workspaceDir, f))
FullPaths(paths) == [i \in 1..Len(paths) |-> Normalize(<<>>, WorkspaceRoot \o paths[i])]

\* what a method hands to its caller, after the launches it issued
Outcome4(threw, value, launched, logged) ==
    [threw |-> threw, value |-> value, launched |-> launched, logged |-> logged]

\* mutant: the catch block lets the error go on to the caller
Caught_Rethrown(launched, message) == Outcome4(TRUE, FALSE, launched, <<message>>)

\* the catch blocks (lines 37-40, 59-62, 91-94): console.error and return false
Caught(launched, message) == Outcome4(FALSE, FALSE, launched, <<message>>)

\* openWorkspace (lines 29-41)
OpenWorkspace(available, outcome) ==
    IF ~available THEN Outcome4(FALSE, FALSE, <<>>, <<>>)
    ELSE LET launched == <<Launch("code workspace", <<WorkspaceRoot>>, 0, outcome)>>
         IN  IF outcome = "fails" THEN Caught(launched, "Failed to open workspace")
             ELSE Outcome4(FALSE, TRUE, launched, <<>>)

\* the filePaths argument: undefined (<<>>) or an array of paths (<<array>>)
EditorFileLists == {<<>>, << <<>> >>, << <<PathA>> >>, << <<PathA, PathB>> >>}

\* openFiles (lines 49-63): filePaths.map throws on undefined, inside the try
OpenFiles(filePaths, available, outcome) ==
    IF ~available THEN Outcome4(FALSE, FALSE, <<>>, <<>>)
    ELSE IF filePaths = <<>> THEN Caught(<<>>, "Failed to open files")
    ELSE LET launched == <<Launch("code files", FullPaths(filePaths[1]), 0, outcome)>>
         IN  IF outcome = "fails" THEN Caught(launched, "Failed to open files")
             ELSE Outcome4(FALSE, TRUE, launched, <<>>)

\* line 74
EditorNotFound == "VS Code CLI not found"

\* mutant: the files are launched although the workspace failed to open
OpenPatch_DespiteFailure(p, available, first, second) ==
    IF ~available THEN Outcome4(FALSE, FALSE, <<>>, <<EditorNotFound>>)
    ELSE LET workspace == <<Launch("code workspace", <<WorkspaceRoot>>, 0, first)>>
             files == <<Launch("code files", <<>>, SettleDelay, second)>>
         IN  IF first = "fails" \/ second = "fails"
             THEN Caught(workspace \o files, "Failed to open patch in VS Code")
             ELSE Outcome4(FALSE, TRUE, workspace \o files, <<>>)

\* openPatch (lines 72-95): the workspace, then the files of the patch if it has
\* any; reading patch.files of a null patch throws, inside the try
OpenPatch(p, available, first, second) ==
    IF ~available THEN Outcome4(FALSE, FALSE, <<>>, <<EditorNotFound>>)
    ELSE LET workspace == <<Launch("code workspace", <<WorkspaceRoot>>, 0, first)>>
             filesToOpen == FullPaths([i \in 1..Len(p[1].files) |-> p[1].files[i].path])
             files == <<Launch("code files", filesToOpen, SettleDelay, second)>>
             failed == "Failed to open patch in VS Code"
         IN  IF first = "fails" THEN Caught(workspace, failed)
             ELSE IF p = <<>> THEN Caught(workspace, failed)
             ELSE IF Len(p[1].files) = 0 THEN Outcome4(FALSE, TRUE, workspace, <<>>)
             ELSE IF second = "fails" THEN Caught(workspace \o files, failed)
             ELSE Outcome4(FALSE, TRUE, workspace \o files, <<>>)

\* the commands of the launches, as the process issued them
Commands(launched) == [i \in 1..Len(launched) |-> launched[i].cmd]

\* one call of a method of the bridge by a caller
EditorCall(op, available, arg, r) ==
    /\ Len(execLog) + Len(console) < MaxEvents
    /\ execLog' = execLog \o Commands(r.launched)
    /\ console' = console \o r.logged
    /\ call' = [Called(op, "", IF r.threw THEN "Error" ELSE "") EXCEPT
                   !.flag = r.value,
                   !.input = <<[available |-> available, arg |-> arg,
                                launched |-> r.launched]>>]
    /\ UNCHANGED <<disk, dirs, pc, argv, patch, opts, idx, appliedFiles, prompts, answers,
                   commitMessage, repo, commits, remote, returnedAt, exitCode>>

OpenWorkspaceCall(available, outcome) ==
    EditorCall("openWorkspace", available, <<>>, OpenWorkspace(available, outcome))

OpenFilesCall(filePaths, available, outcome) ==
    EditorCall("openFiles", available, filePaths, OpenFiles(filePaths, available, outcome))

\* the patch argument: null (<<>>) or a patch (<<patch>>)
EditorPatches ==
    {<<>>} \cup {<<Patch(fs)>> : fs \in ListsOf({FileChange(PathA, "create", <<"+", "x">>),
                                                  FileChange(PathB, "delete", <<>>)}, 2)}

OpenPatchCall(p, available, first, second) ==
    EditorCall("openPatch", available, p, OpenPatch(p, available, first, second))

NextEditor ==
    \/ \E available \in BOOLEAN, outcome \in LaunchOutcomes :
          OpenWorkspaceCall(available, outcome)
    \/ \E filePaths \in EditorFileLists, available \in BOOLEAN, outcome \in LaunchOutcomes :
          OpenFilesCall(filePaths, available, outcome)
    \/ \E p \in EditorPatches, available \in BOOLEAN, first \in LaunchOutcomes,
          second \in LaunchOutcomes :
          OpenPatchCall(p, available, first, second)

SpecEditor == InitStore /\ [][NextEditor]_vars

-----------------------------------------------------------------------------
(* The commands show and open, next to apply *)

\* mutant: the command ends with status 0
NotFoundExit_Status0 ==
    /\ console' = Append(console, "Patch not found.")
    /\ exitCode' = 0
    /\ pc' = "exited"

\* part_006 lines 52-55 and 81-84: Patch "<name>" not found, process.exit(1)
NotFoundExit ==
    /\ console' = Append(console, "Patch not found.")
    /\ exitCode' = 1
    /\ pc' = "exited"

\* the catch of a command (lines 67-70, 99-102)
ErrorExit(message) ==
    /\ console' = Append(console, message)
    /\ exitCode' = 1
    /\ pc' = "exited"

\* `pcamaw show <patchName>` (part_006 lines 45-71)
ShowCommand(name) ==
    /\ pc = "cli"
    /\ dirs' = EnsurePatchesDir(dirs)
    /\ call' = Called("show", name, "")
    /\ LET got == GetPatch(name)
       IN  IF got.threw THEN ErrorExit("Error showing patch")
           ELSE IF got.value = <<>> THEN NotFoundExit
           ELSE /\ console' = console \o
                       <<"Patch: " \o got.value[1].name, "Files to be modified:">>
                /\ exitCode' = 0
                /\ pc' = "exited"
    /\ UNCHANGED <<disk, argv, patch, opts, idx, appliedFiles, prompts, answers,
                   commitMessage, repo, execLog, commits, remote, returnedAt>>

\* `pcamaw open <patchName>` (part_006 lines 73-103) with openPatch
OpenCommand(name, available, first, second) ==
    /\ pc = "cli"
    /\ dirs' = EnsurePatchesDir(dirs)
    /\ call' = Called("open", name, "")
    /\ LET got == GetPatch(name)
       IN  IF got.threw
           THEN /\ ErrorExit("Error opening patch")
                /\ UNCHANGED execLog
           ELSE IF got.value = <<>>
           THEN /\ NotFoundExit
                /\ UNCHANGED execLog
           ELSE LET r == OpenPatch(got.value, available, first, second)
                IN  /\ execLog' = execLog \o Commands(r.launched)
                    /\ console' = console \o <<"Opening patch in VS Code...">> \o r.logged
                                          \o <<IF r.value THEN "Patch opened in VS Code"
                                               ELSE "Could not open VS Code">>
                    /\ exitCode' = 0
                    /\ pc' = "exited"
    /\ UNCHANGED <<disk, argv, patch, opts, idx, appliedFiles, prompts, answers,
                   commitMessage, repo, commits, remote, returnedAt>>

NextCli ==
    \/ \E name \in PatchNames : ShowCommand(name)
    \/ \E name \in PatchNames, available \in BOOLEAN, first \in LaunchOutcomes,
          second \in LaunchOutcomes :
          OpenCommand(name, available, first, second)
    \/ Next

SpecCli == InitWith(OperationPatches) /\ [][NextCli]_vars

-----------------------------------------------------------------------------
(* The clear command on a store that savePatch has filled *)

\* the patches saved before the command: no fields but the name, or a timestamp too
ClearArgs == {arg \in SaveArgs : arg.description = <<>> /\ arg.timestamp \in {<<>>, <<1>>}}

\* `pcamaw clear [--force]` (part_006 lines 158-187) with clearPatches
\* (part_005 lines 180-190); the unlink of the failAt-th deletePatch fails, none
\* when failAt is 0
ClearCommand(force, confirm, order, failAt, fail) ==
    /\ pc = "cli"
    /\ fail \in {"none", "mkdir"}
    /\ force => confirm
    /\ prompts' = IF force THEN prompts ELSE Append(prompts, "confirmClear")
    /\ IF ~confirm
       THEN /\ fail = "none" /\ failAt = 0
            /\ console' = Append(console, "Cancelled.")
            /\ exitCode' = 0
            /\ call' = [Called("clear", "", "") EXCEPT
                           !.input = <<[force |-> force, confirm |-> confirm]>>]
            /\ UNCHANGED <<disk, dirs>>
       ELSE LET listed == ListPatches(disk, order)
                patches == listed.value
                error == IF fail = "mkdir" THEN EnsureFailed
                         ELSE IF listed.threw THEN "Failed to list patches"
                         ELSE IF failAt > 0 THEN "Failed to delete patch"
                         ELSE ""
            IN  /\ fail = "mkdir" => (MkdirCanFail(dirs) /\ failAt = 0)
                /\ listed.threw => failAt = 0
                /\ failAt > 0 =>
                      /\ failAt <= Len(patches)
                      /\ StorePath(patches[failAt].name)
                             \in DOMAIN disk \ PathsOf(patches, failAt - 1)
                /\ dirs' = IF fail = "mkdir" THEN dirs ELSE EnsurePatchesDir(dirs)
                /\ disk' = IF fail = "mkdir" \/ listed.threw THEN disk
                           ELSE IF failAt > 0 THEN Unlink(disk, PathsOf(patches, failAt - 1))
                           ELSE Unlink(disk, PathsOf(patches, Len(patches)))
                /\ console' = Append(console, IF error = "" THEN "All patches cleared."
                                              ELSE "Error clearing patches")
                /\ exitCode' = IF error = "" THEN 0 ELSE 1
                /\ call' = [Called("clear", "", error) EXCEPT
                               !.input = <<[force |-> force, confirm |-> confirm]>>,
                               !.detail = IF fail = "none" THEN listed.detail ELSE <<>>,
                               !.count = IF error = "" THEN Len(patches) ELSE 0]
    /\ pc' = "exited"
    /\ UNCHANGED <<argv, patch, opts, idx, appliedFiles, answers, commitMessage, repo,
                   execLog, commits, remote, returnedAt>>

NextClear ==
    \/ \E arg \in ClearArgs, fail \in StoreFails :
          pc = "cli" /\ SavePatchCall(arg, fail)
    \/ \E force \in BOOLEAN, confirm \in BOOLEAN, order \in Orders(PatchFilesOf(disk)),
          failAt \in 0..Cardinality(StoreNames), fail \in StoreFails :
          ClearCommand(force, confirm, order, failAt, fail)

SpecClear == InitStore /\ [][NextClear]_vars

-----------------------------------------------------------------------------
(* The apply command with the commit message edited freely *)

\* the characters of an edited message: a letter, the quote, the backslash and
\* the line break
MessageChars == {"a", DQ, BS, NL}

EditedMessages == UNION {[1..n -> MessageChars] : n \in 0..MaxLen}

\* one patch that creates a file, without and with a description
MessagePatches ==
    {Patch(<<FileChange(PathA, "create", <<"+", "x">>)>>),
     [Patch(<<FileChange(PathA, "create", <<"+", "x">>)>>) EXCEPT !.description = "fix"]}

NextMessage ==
    \/ \E msg \in EditedMessages : AnswerCommitMessage(msg)
    \/ Next

SpecMessage == InitWith(MessagePatches) /\ [][NextMessage]_vars

-----------------------------------------------------------------------------
(* CommitWorkflow.reviewPatches (commit-workflow.js lines 220-273) *)

\* the patches a reviewed store holds
ReviewPatches ==
    {Patch(fs) : fs \in ListsOf({FileChange(PathA, "create", <<"+", "x">>),
                                 FileChange(PathB, "create", <<"+", "x">>),
                                 FileChange(PathB, "modify", <<"-", "x", NL, "+", "x">>)}, 2)}

\* the stores reviewed: absent, empty, one record, two records, a record next to
\* a file that does not parse, and a record whose file is named otherwise
ReviewStores ==
    {[disk |-> InitWorkspace, dirs |-> {<<>>}],
     [disk |-> InitWorkspace, dirs |-> Prefixes(PatchesDir)]}
    \cup {[disk |-> DiskWith(p), dirs |-> Prefixes(PatchesDir)] : p \in ReviewPatches}
    \cup {[disk |-> DiskWith(p) @@ (StorePath("p2") :> JsonFile([p EXCEPT !.name = "p2"])),
           dirs |-> Prefixes(PatchesDir)] : p \in ReviewPatches}
    \cup {[disk |-> DiskWith(p) @@ (StorePath("p2") :> TruncatedJson),
           dirs |-> Prefixes(PatchesDir)] : p \in ReviewPatches}
    \cup {[disk |-> InitWorkspace @@ (StorePath("p2") :> JsonFile([p EXCEPT !.name = "p3"])),
           dirs |-> Prefixes(PatchesDir)] : p \in ReviewPatches}

InitReview ==
    /\ \E s \in ReviewStores :
          /\ disk = s.disk
          /\ dirs = s.dirs
    /\ pc = "cli"
    /\ argv = [noCommit |-> FALSE, autoPush |-> FALSE]
    /\ patch = <<>>
    /\ opts = [skipCommit |-> FALSE, autoPush |-> FALSE]
    /\ idx = 0
    /\ appliedFiles = <<>>
    /\ prompts = <<>>
    /\ answers = NoAnswers
    /\ commitMessage = <<>>
    /\ repo = "unknown"
    /\ execLog = <<>>
    /\ commits = <<>>
    /\ remote = 0
    /\ console = <<>>
    /\ returnedAt = 0
    /\ exitCode = -1
    /\ call = NoCall

\* the method ends by throwing: the promise it returned rejects
ReviewRejects(error, detail, before) ==
    /\ call' = [Called("reviewPatches", call.name, error) EXCEPT
                   !.detail = detail, !.input = before, !.flag = call.flag]
    /\ pc' = "exited"

\* lines 221-245: listPatches, the empty case, and the list prompt; the call
\* keeps the files and directories it started from
ReviewStart(order, fail) ==
    /\ pc = "cli"
    /\ fail \in {"none", "mkdir"}
    /\ fail = "mkdir" => MkdirCanFail(dirs)
    /\ LET before == <<[disk |-> disk, dirs |-> dirs]>>
           listed == ListPatches(disk, order)
       IN  IF fail = "mkdir"
           THEN /\ ReviewRejects(EnsureFailed, <<>>, before)
                /\ UNCHANGED <<dirs, console, prompts>>
           ELSE /\ dirs' = EnsurePatchesDir(dirs)
                /\ IF listed.threw
                   THEN /\ ReviewRejects("Failed to list patches", listed.detail, before)
                        /\ UNCHANGED <<console, prompts>>
                   ELSE IF Len(listed.value) = 0
                   THEN /\ console' = Append(console, "No patches available for review.")
                        /\ call' = [Called("reviewPatches", "", "") EXCEPT !.input = before]
                        /\ pc' = "exited"
                        /\ UNCHANGED prompts
                   ELSE /\ console' = Append(console, "Available Patches:")
                        /\ prompts' = Append(prompts, "selectedPatch")
                        /\ call' = [Called("reviewPatches", "", "") EXCEPT
                                       !.input = before, !.patches = listed.value]
                        /\ pc' = "selectPatch"
    /\ UNCHANGED <<disk, argv, patch, opts, idx, appliedFiles, answers, commitMessage, repo,
                   execLog, commits, remote, returnedAt, exitCode>>

\* lines 247-266: the choice, <<>> for (Cancel); getPatch, openPatch, and the
\* prompt 'Reviewed in VS Code. Apply this patch?'
ReviewSelect(choice, available, first, second) ==
    /\ pc = "selectPatch"
    /\ choice \in {<<>>} \cup {<<call.patches[i].name>> : i \in 1..Len(call.patches)}
    /\ IF ~TruthyString(choice)
       THEN /\ console' = Append(console, "Cancelled.")
            /\ pc' = "exited"
            /\ UNCHANGED <<call, patch, prompts, execLog>>
       ELSE LET got == GetPatch(choice[1])
                r == OpenPatch(got.value, available, first, second)
            IN  IF got.threw
                THEN /\ ReviewRejects("Failed to read patch", <<>>, call.input)
                     /\ UNCHANGED <<console, patch, prompts, execLog>>
                ELSE /\ patch' = got.value
                     /\ console' = console \o <<"Opening patch in VS Code...">> \o r.logged
                     /\ execLog' = execLog \o Commands(r.launched)
                     /\ prompts' = Append(prompts, "proceedWithApply")
                     /\ call' = [call EXCEPT !.name = choice[1]]
                     /\ pc' = "proceedWithApply"
    /\ UNCHANGED <<disk, dirs, argv, opts, idx, appliedFiles, answers, commitMessage, repo,
                   commits, remote, returnedAt, exitCode>>

\* mutant: the answer to the review confirmation is ignored
ProceedsWithApply_Ignored(ans) == TRUE

\* line 268: if (proceedWithApply)
ProceedsWithApply(ans) == ans

\* lines 268-272 and, on yes, applyPatch(patch) up to its prompt (lines 60-80):
\* the summary of a null patch throws at line 65
ReviewProceed(ans) ==
    /\ pc = "proceedWithApply"
    /\ IF ~ProceedsWithApply(ans)
       THEN /\ console' = Append(console, "Patch not applied.")
            /\ call' = [call EXCEPT !.flag = ans]
            /\ pc' = "exited"
            /\ UNCHANGED <<opts, prompts>>
       ELSE IF patch = <<>>
       THEN /\ console' = Append(console, "Patch Summary")
            /\ call' = [Called("reviewPatches", call.name, "TypeError") EXCEPT
                           !.input = call.input, !.flag = ans]
            /\ pc' = "exited"
            /\ UNCHANGED <<opts, prompts>>
       ELSE /\ console' = Append(console, "Patch Summary")
            /\ call' = [call EXCEPT !.flag = ans]
            /\ opts' = [skipCommit |-> FALSE, autoPush |-> FALSE]
            /\ prompts' = Append(prompts, "confirmApply")
            /\ pc' = "confirmApply"
    /\ UNCHANGED <<disk, dirs, argv, patch, idx, appliedFiles, answers, commitMessage, repo,
                   execLog, commits, remote, returnedAt, exitCode>>

\* the review, and the steps of applyPatch it goes on with
NextReview ==
    \/ \E order \in Orders(PatchFilesOf(disk)), fail \in {"none", "mkdir"} :
          ReviewStart(order, fail)
    \/ \E choice \in {<<>>} \cup {<<n>> : n \in ListNames}, available \in BOOLEAN,
          first \in LaunchOutcomes, second \in LaunchOutcomes :
          ReviewSelect(choice, available, first, second)
    \/ \E ans \in BOOLEAN : ReviewProceed(ans)
    \/ Next

SpecReview == InitReview /\ [][NextReview]_vars

-----------------------------------------------------------------------------
(* The command planner: evaluateCommand *)

\* the words and separators of a command
MaxCmd == 4

\* two words with a blank between them
Words(a, b) == <<a, " ", b>>

\* part_001 lines 14-20
safePrefixes ==
    { <<"ls">>, <<"pwd">>, <<"find">>, <<"grep">>, <<"cat">>, <<"head">>, <<"tail">>,
      <<"wc">>, Words("git", "status"), Words("git", "log"), Words("git", "diff"),
      Words("npm", "list"), Words("npm", "run"), Words("npm", "test"),
      Words("npm", "install"), Words("npm", "ci"), Words("npx", "truffle"),
      Words("npx", "next"), Words("npx", "eslint"), <<"node", " ">>,
      Words("test", "-"), <<"echo">>, <<"printf">> }

\* part_001 lines 22-27
dangerousPatterns ==
    { Words("rm", "-rf"), Words("rm", "-f"), Words("del", "/f"), <<"format">>,
      <<"sudo">>, Words("chmod", "777"), <<"chown">>,
      Words("git", "push") \o <<" ", "--force">>, Words("git", "reset") \o <<" ", "--hard">>,
      Words("npm", "uninstall"), Words("pip", "uninstall"), <<"shutdown">>, <<"reboot">> }

\* what the commands given are made of: safe and dangerous words, the blank, the
\* quote, and other text
CommandAtoms == {"ls", "echo", "rm", "-rf", " ", DQ, "sudo", "x"}

PlannerCommands == UNION {[1..n -> CommandAtoms] : n \in 0..MaxCmd}

\* String.prototype.trim
RECURSIVE Trim(_)
Trim(s) ==
    IF Len(s) = 0 THEN s
    ELSE IF s[1] = " " THEN Trim(Tail(s))
    ELSE IF s[Len(s)] = " " THEN Trim(SubSeq(s, 1, Len(s) - 1))
    ELSE s

\* mutant: the pattern is looked for at the start only
Includes_AtStart(s, pattern) == Len(pattern) <= Len(s) /\ SubSeq(s, 1, Len(pattern)) = pattern

\* String.prototype.includes
RECURSIVE Includes(_, _)
Includes(s, pattern) ==
    IF Len(pattern) > Len(s) THEN FALSE
    ELSE IF SubSeq(s, 1, Len(pattern)) = pattern THEN TRUE
    ELSE Includes(Tail(s), pattern)

\* String.prototype.startsWith
StartsWith(s, prefix) == Len(prefix) <= Len(s) /\ SubSeq(s, 1, Len(prefix)) = prefix

\* evaluateCommand (part_001 lines 29-52)
evaluateCommand(command, category, context) ==
    LET trimmed == Trim(command)
        isDangerous == \E pattern \in dangerousPatterns : Includes(trimmed, pattern)
        isSafe == \E prefix \in safePrefixes : StartsWith(trimmed, prefix)
    IN  IF isDangerous
        THEN [command |-> trimmed, category |-> category, status |-> "blocked",
              safety_level |-> "blocked", context |-> context,
              reason |-> <<"Command blocked by safety policy">>]
        ELSE [command |-> trimmed, category |-> category,
              status |-> IF isSafe THEN "approved" ELSE "conditional",
              safety_level |-> IF isSafe THEN "safe" ELSE "moderate",
              context |-> context, reason |-> <<>>]

\* the idle state of the other components
Idle ==
    /\ disk = InitWorkspace
    /\ dirs = {<<>>}
    /\ pc = "cli"
    /\ argv = [noCommit |-> FALSE, autoPush |-> FALSE]
    /\ patch = <<>>
    /\ opts = [skipCommit |-> FALSE, autoPush |-> FALSE]
    /\ idx = 0
    /\ appliedFiles = <<>>
    /\ prompts = <<>>
    /\ answers = NoAnswers
    /\ commitMessage = <<>>
    /\ repo = "unknown"
    /\ execLog = <<>>
    /\ commits = <<>>
    /\ remote = 0
    /\ console = <<>>
    /\ returnedAt = 0
    /\ exitCode = -1

\* a command with its category and context waits to be evaluated
InitPlanner ==
    /\ Idle
    /\ \E command \in PlannerCommands, category \in {"backend", "general"},
          context \in {"{}", "{priority: critical}"} :
          call = [NoCall EXCEPT !.input = <<[command |-> command, category |-> category,
                                             context |-> context]>>]

EvaluateCommandCall ==
    /\ call.op = "none"
    /\ call' = [call EXCEPT
                   !.op = "evaluateCommand",
                   !.patches = <<evaluateCommand(call.input[1].command,
                                                 call.input[1].category,
                                                 call.input[1].context)>>]
    /\ UNCHANGED <<disk, dirs, pc, argv, patch, opts, idx, appliedFiles, prompts, answers,
                   commitMessage, repo, execLog, commits, remote, console, returnedAt,
                   exitCode>>

NextPlanner == EvaluateCommandCall

SpecPlanner == InitPlanner /\ [][NextPlanner]_vars

-----------------------------------------------------------------------------
(* Safe file writer: validateFileOperation (tests/test_file_writer.js) *)

\* most pieces of a file path given to validateFileOperation
MaxPath == 3

\* line 19: the extensions allowed when the configuration names none
DefaultExtensions == << <<".", "md">>, <<".", "txt">>, <<".", "json">>, <<".", "gitignore">> >>

\* line 20: the size limit when the configuration names none
DefaultMaxBytes == 50000

\* line 36
node_gitignore ==
    <<"n", "o", "d", "e", "_", "m", "o", "d", "u", "l", "e", "s", "/", NL, ".", "e",
      "n", "v", NL, ".", "e", "n", "v", ".", "l", "o", "c", "a", "l", NL, ".", "D",
      "S", "_", "S", "t", "o", "r", "e", NL, "d", "i", "s", "t", "/", NL, "b", "u",
      "i", "l", "d", "/", NL, "c", "o", "v", "e", "r", "a", "g", "e", "/", NL, "*",
      ".", "l", "o", "g">>

\* line 37
basic_readme ==
    <<"#", " ", "P", "r", "o", "j", "e", "c", "t", NL, NL, "#", "#", " ", "O", "v",
      "e", "r", "v", "i", "e", "w", NL, "A", "u", "t", "o", "m", "a", "t", "i", "c",
      "a", "l", "l", "y", " ", "g", "e", "n", "e", "r", "a", "t", "e", "d", " ", "p",
      "r", "o", "j", "e", "c", "t", " ", "d", "o", "c", "u", "m", "e", "n", "t", "a",
      "t", "i", "o", "n", ".", NL>>

\* lines 35-38: templates[name], <<>> when the table has no such key
Template(name) ==
    IF name = "node_gitignore" THEN <<node_gitignore>>
    ELSE IF name = "basic_readme" THEN <<basic_readme>>
    ELSE <<>>

\* what the file paths given are made of: names, the dot and the separator
PathAtoms == {"a", ".", "/", "md", "sh"}

FilePaths == UNION {[1..n -> PathAtoms] : n \in 0..MaxPath}

\* the components of a path, split at the separator
RECURSIVE SplitPath(_, _)
SplitPath(s, cur) ==
    IF Len(s) = 0 THEN <<cur>>
    ELSE IF s[1] = "/" THEN <<cur>> \o SplitPath(Tail(s), <<>>)
    ELSE SplitPath(Tail(s), Append(cur, s[1]))

\* a component written as one name
RECURSIVE NameOf(_)
NameOf(c) == IF Len(c) = 0 THEN "" ELSE c[1] \o NameOf(Tail(c))

\* path.normalize on components: empty and '.' components are dropped and a '..'
\* component removes the one before it
RECURSIVE NormalizeParts(_, _)
NormalizeParts(done, rest) ==
    IF Len(rest) = 0 THEN done
    ELSE IF rest[1] = <<>> \/ rest[1] = <<".">> THEN NormalizeParts(done, Tail(rest))
    ELSE IF rest[1] = <<".", ".">> /\ Len(done) > 0 /\ done[Len(done)] # <<".", ".">>
    THEN NormalizeParts(SubSeq(done, 1, Len(done) - 1), Tail(rest))
    ELSE NormalizeParts(Append(done, rest[1]), Tail(rest))

\* line 27: path.join(projectPath, fileOp.file_path || ''), as components below
\* the project directory
JoinProject(file_path) == NormalizeParts(<<>>, SplitPath(file_path, <<>>))

\* the same path as a key of the file system
DiskPath(parts) == [i \in 1..Len(parts) |-> NameOf(parts[i])]

\* line 28: path.extname; the project directory's own name holds no dot
ExtName(parts) ==
    IF Len(parts) = 0 THEN <<>>
    ELSE LET base == parts[Len(parts)]
             dots == {i \in 1..Len(base) : base[i] = "."}
         IN  IF dots = {} THEN <<>>
             ELSE LET startDot == CHOOSE i \in dots : \A j \in dots : j <= i
                  IN  IF startDot = 1 THEN <<>>
                      ELSE IF base = <<".", ".">> THEN <<>>
                      ELSE SubSeq(base, startDot, Len(base))

\* Array.prototype.includes
ListIncludes(list, x) == \E i \in 1..Len(list) : list[i] = x

\* line 52: fs.existsSync; the directories above the project directory exist
ExistsSync(p) ==
    p \in DOMAIN disk \/ p \in dirs \/ \A i \in 1..Len(p) : p[i] = ".."

\* validateFileOperation (lines 18-57); fileOp is [file_path, content,
\* content_template] and safetyConfig is [safety], each field <<>> when undefined
validateFileOperation(fileOp, safetyConfig) ==
    LET safety == safetyConfig.safety
        allowedExtensions ==
            IF Len(safety) = 1 /\ Len(safety[1].allowed_file_extensions) = 1
            THEN safety[1].allowed_file_extensions[1] ELSE DefaultExtensions
        maxBytes ==
            IF Len(safety) = 1 /\ Len(safety[1].max_file_bytes) = 1
               /\ safety[1].max_file_bytes[1] # 0
            THEN safety[1].max_file_bytes[1] ELSE DefaultMaxBytes
        fileWritingEnabled ==
            ~(Len(safety) = 1 /\ safety[1].enable_file_writing = <<FALSE>>)
        filePath == JoinProject(IF Len(fileOp.file_path) = 1 THEN fileOp.file_path[1] ELSE <<>>)
        ext == ExtName(filePath)
        template == IF Len(fileOp.content_template) = 1
                    THEN Template(fileOp.content_template[1]) ELSE <<>>
        hasContent == Len(fileOp.content) = 1 /\ fileOp.content[1] # <<>>
        content == IF Len(template) = 1 THEN template[1]
                   ELSE IF hasContent THEN fileOp.content[1] ELSE <<>>
        Result(status, reason, c, p) ==
            [status |-> status, reason |-> reason, content |-> c, file_path |-> p]
    IN  IF ~fileWritingEnabled
        THEN Result("disabled", <<"File writing disabled in config">>, <<>>, <<>>)
        ELSE IF ~ListIncludes(allowedExtensions, ext) /\ ext # <<>>
        THEN Result("blocked", <<"Extension ", ext, " not in allowed list">>, <<>>, <<>>)
        ELSE IF Len(template) = 0 /\ ~hasContent
        THEN Result("skipped", <<"No content or template provided">>, <<>>, <<>>)
        ELSE IF Len(content) > maxBytes
        THEN Result("blocked", <<"Content exceeds max size (", maxBytes, " bytes)">>, <<>>, <<>>)
        ELSE IF ExistsSync(DiskPath(filePath))
        THEN Result("skipped", <<"File already exists">>, <<>>, <<DiskPath(filePath)>>)
        ELSE Result("approved", <<>>, <<content>>, <<DiskPath(filePath)>>)

\* the configurations given: no safety section, or one with each setting absent
\* or present
SafetyConfigs ==
    {[safety |-> <<>>]} \cup
    {[safety |-> <<[allowed_file_extensions |-> a, max_file_bytes |-> m,
                    enable_file_writing |-> e]>>] :
        a \in {<<>>, << <<>> >>, << << <<".", "md">> >> >>},
        m \in {<<>>, <<0>>, <<1>>},
        e \in {<<>>, <<TRUE>>, <<FALSE>>}}

\* the operations given: a path, content of up to two characters or none, and a
\* template name that the table holds, one it does not hold, or none
FileOps ==
    {[file_path |-> p, content |-> c, content_template |-> t] :
        p \in {<<>>} \cup {<<f>> : f \in FilePaths},
        c \in {<<>>, << <<>> >>, << <<"x">> >>, << <<"x", "x">> >>},
        t \in {<<>>, <<"node_gitignore">>, <<"basic_readme">>, <<"other">>}}

\* the project directories given: the workspace, and one that also holds a file
\* with an allowed extension and a file without extension
ProjectDirs ==
    {InitWorkspace,
     (<<"a.md">> :> TextFile(<<"x">>)) @@ (<<"a">> :> TextFile(<<"x">>)) @@ InitWorkspace}

\* an operation and a configuration wait to be validated
InitFileWriter ==
    /\ disk \in ProjectDirs
    /\ dirs = {<<>>}
    /\ pc = "cli"
    /\ argv = [noCommit |-> FALSE, autoPush |-> FALSE]
    /\ patch = <<>>
    /\ opts = [skipCommit |-> FALSE, autoPush |-> FALSE]
    /\ idx = 0
    /\ appliedFiles = <<>>
    /\ prompts = <<>>
    /\ answers = NoAnswers
    /\ commitMessage = <<>>
    /\ repo = "unknown"
    /\ execLog = <<>>
    /\ commits = <<>>
    /\ remote = 0
    /\ console = <<>>
    /\ returnedAt = 0
    /\ exitCode = -1
    /\ \E fileOp \in FileOps, safetyConfig \in SafetyConfigs :
          call = [NoCall EXCEPT !.input = <<[fileOp |-> fileOp,
                                             safetyConfig |-> safetyConfig]>>]

ValidateFileOperationCall ==
    /\ call.op = "none"
    /\ call' = [call EXCEPT
                   !.op = "validateFileOperation",
                   !.patches = <<validateFileOperation(call.input[1].fileOp,
                                                       call.input[1].safetyConfig)>>]
    /\ UNCHANGED <<disk, dirs, pc, argv, patch, opts, idx, appliedFiles, prompts, answers,
                   commitMessage, repo, execLog, commits, remote, console, returnedAt,
                   exitCode>>

NextFileWriter == ValidateFileOperationCall

SpecFileWriter == InitFileWriter /\ [][NextFileWriter]_vars

-----------------------------------------------------------------------------
(* Properties *)

Ran(cmd) == \E i \in 1..Len(execLog) : execLog[i] = cmd

Asked(q) == \E i \in 1..Len(prompts) : prompts[i] = q

Printed(m) == \E i \in 1..Len(console) : console[i] = m

NoCommitOrPush ==
    /\ ~Ran("add") /\ ~Ran("commit") /\ ~Ran("remote get-url") /\ ~Ran("push")
    /\ commits = <<>>
    /\ remote = 0

\* entries of patch.files the loop of PatchManager.applyPatch has completed
Processed == IF idx = 0 THEN 0 ELSE idx - 1

\* the last of the first n entries that names path p and is a create with a diff
LastCreate(p, n) ==
    LET js == {j \in 1..n : Files[j].path = p /\ Files[j].operation = "create"
                             /\ Files[j].diff # <<>>}
    IN  IF js = {} THEN 0 ELSE CHOOSE j \in js : \A k \in js : k <= j

PlusPrefixedOf == [c \in Texts |-> PlusPrefixed(c)]

\* C1: declining the apply confirmation ends the run at once: no workspace file
\* or directory is created or written and no git command is executed, whatever
\* the patch and the options are.
C1_DeclineLeavesWorkspaceUnchanged ==
    answers.confirmApply = "no" =>
        /\ pc = "exited"
        /\ returnedAt = 84
        /\ disk = DiskWith(patch[1])
        /\ dirs = Prefixes(PatchesDir)
        /\ execLog = <<>>
        /\ NoCommitOrPush
        /\ prompts = <<"confirmApply">>

C1_Witness ==
    /\ answers.confirmApply = "no"
    /\ opts.autoPush
    /\ Len(Files) = 2
    /\ IsCreateWithDiff(Files[1])
    /\ Files[2].path = PathB

\* C2: files are written only after the apply confirmation was answered yes; a
\* commit is made only after files were applied and the commit confirmation was
\* answered yes; a push is made only after a successful commit and after auto-push
\* was set or the push confirmation was answered yes.
C2_Gates ==
    /\ (Len(patch) = 1 /\ (\/ disk # DiskWith(patch[1])
                            \/ dirs # Prefixes(PatchesDir)
                            \/ Len(appliedFiles) > 0))
         => answers.confirmApply = "yes"
    /\ (Ran("add") \/ Ran("commit") \/ Len(commits) > 0)
         => /\ answers.confirmApply = "yes"
            /\ Len(appliedFiles) > 0
            /\ answers.shouldCommit = "yes"
    /\ (Ran("remote get-url") \/ Ran("push") \/ remote > 0 \/ pc = "pushing")
         => /\ Len(commits) = 1
            /\ answers.shouldCommit = "yes"
            /\ opts.autoPush \/ answers.shouldPush = "yes"
    /\ (opts.autoPush /\ Len(patch) = 1) => answers.shouldPush = "unasked"

C2_Witness ==
    /\ Ran("push")
    /\ ~opts.autoPush
    /\ answers = [confirmApply |-> "yes", shouldCommit |-> "yes", shouldPush |-> "yes"]

\* C3: outside a git repository the workflow, having written at least one file,
\* stops in the no-git terminal state: no git status, no commit or push prompt,
\* no git add, commit or push, whatever skipCommit and autoPush are.
C3_NoRepoStops ==
    repo = "no" =>
        /\ pc = "exited"
        /\ returnedAt = 107
        /\ Len(appliedFiles) > 0
        /\ Printed("Files have been written to disk.")
        /\ ~Ran("status")
        /\ NoCommitOrPush
        /\ prompts = <<"confirmApply">>

C3_Witness ==
    /\ repo = "no"
    /\ opts.autoPush
    /\ ~opts.skipCommit
    /\ PathB \in DOMAIN disk

\* C4: a create change whose diff is the original content with every line
\* prefixed by '+' writes exactly the original content to its path and reports
\* the path as applied.
C4_CreateReconstruction ==
    (pc = "applying" /\ idx > 1) =>
        LET fc == Files[idx - 1]
        IN  \A c \in Texts :
               (fc.operation = "create" /\ fc.diff = PlusPrefixedOf[c]) =>
                   /\ TargetPath(fc) \in DOMAIN disk
                   /\ disk[TargetPath(fc)] = TextFile(c)
                   /\ Len(appliedFiles) > 0
                   /\ appliedFiles[Len(appliedFiles)] = fc.path

C4_Witness ==
    /\ pc = "applying"
    /\ idx = 2
    /\ Files[1].operation = "create"
    /\ Files[1].diff = <<"+", NL, "+", "+", NL, "+">>
    /\ disk[Files[1].path] = TextFile(<<NL, "+", NL>>)

\* C5: patch.files is processed in array order without deduplication by path:
\* after any number of completed entries, no entry having failed, every path
\* holds the content of the last completed create change naming it (the initial
\* content if there is none) and the applied paths are those of the completed
\* create changes, in array order, repeated paths included.
C5_ApplyOrder ==
    (Len(patch) = 1 /\ idx >= 1 /\ returnedAt # 100) =>
        LET n == Processed
            done == SelectSeq(SubSeq(Files, 1, n), IsCreateWithDiff)
            init == DiskWith(patch[1])
        IN  /\ n <= Len(Files)
            /\ appliedFiles = [i \in 1..Len(done) |-> done[i].path]
            /\ DOMAIN disk = DOMAIN init \cup {done[i].path : i \in 1..Len(done)}
            /\ \A p \in DOMAIN disk :
                  LET j == LastCreate(p, n)
                  IN  disk[p] = IF j = 0 THEN init[p]
                                ELSE TextFile(ReconstructContent(Files[j].diff))

C5_Witness ==
    /\ Len(Files) = 3
    /\ idx = 4
    /\ Files[1] = FileChange(PathA, "create", <<"+", "x">>)
    /\ Files[2] = FileChange(PathB, "create", <<"+", "x">>)
    /\ Files[3] = FileChange(PathA, "create", <<"+", "-", NL, "+">>)
    /\ appliedFiles = <<PathA, PathB, PathA>>
    /\ disk[PathA] = TextFile(<<"-", NL>>)

StoreRecords == {p \in DOMAIN disk : Dirname(p) = PatchesDir}

\* C6: applying a patch never rewrites a stored patch record: the set of records
\* in the store and the content of each record are the same during and after a
\* run of the apply workflow as before it, whatever paths the file changes name.
C6_StoreUnchangedByApply ==
    Len(patch) = 1 =>
        /\ StoreRecords = {StorePath(patch[1].name)}
        /\ disk[StorePath(patch[1].name)] = JsonFile(patch[1])

\* C7: when the apply step applied zero files the workflow stops there and
\* reports that nothing changed: no git command is run and no commit or push
\* question is asked, also with auto-push set.
C7_NothingAppliedStops ==
    (answers.confirmApply = "yes" /\ pc # "applying" /\ Len(appliedFiles) = 0) =>
        /\ pc = "exited"
        /\ returnedAt \in {96, 100}
        /\ idx > Len(Files) <=> returnedAt = 96
        /\ returnedAt = 96 => Printed("No files were modified.")
        /\ execLog = <<>>
        /\ NoCommitOrPush
        /\ prompts = <<"confirmApply">>

C7_Witness ==
    /\ returnedAt = 96
    /\ opts.autoPush
    /\ ~opts.skipCommit
    /\ Len(Files) = 2
    /\ Files[1].operation = "modify"
    /\ Files[2].operation = "delete"

\* C8: with --no-commit the workflow never asks the commit question, never
\* commits and never pushes, also when --auto-push is given; once the status
\* was shown it stops in the applied-not-committed state.
C8_SkipCommitStops ==
    (argv.noCommit /\ Len(patch) = 1) =>
        /\ opts.skipCommit
        /\ ~Asked("shouldCommit") /\ ~Asked("commitMessage") /\ ~Asked("shouldPush")
        /\ NoCommitOrPush
        /\ pc \in {"confirmApply", "applying", "status", "exited"}
        /\ Ran("status") =>
              /\ pc = "exited"
              /\ returnedAt = 121
              /\ execLog = <<"rev-parse", "status">>
              /\ Printed("Skipping commit (--no-commit flag set)")
              /\ Len(appliedFiles) > 0

C8_Witness ==
    /\ argv.noCommit
    /\ argv.autoPush
    /\ returnedAt = 121
    /\ Printed("Git Status")

CommitFailed == Ran("add") /\ Len(commits) = 0

\* C9: when git add or git commit fails the workflow halts with the error
\* reported: the applied files stay on disk as written, the push question is
\* not asked and no push is attempted, with or without auto-push.
C9_CommitFailureHalts ==
    CommitFailed =>
        /\ pc = "exited"
        /\ returnedAt = 164
        /\ Printed("Commit failed")
        /\ ~Asked("shouldPush")
        /\ ~Ran("remote get-url") /\ ~Ran("push")
        /\ remote = 0
        /\ Len(appliedFiles) > 0
        /\ \A i \in 1..Len(appliedFiles) :
              LET p == appliedFiles[i]
              IN  /\ p \in DOMAIN disk
                  /\ disk[p] = TextFile(ReconstructContent(
                                   Files[LastCreate(p, Len(Files))].diff))

C9_Witness ==
    /\ CommitFailed
    /\ Ran("commit")
    /\ opts.autoPush
    /\ appliedFiles = <<PathB>>

PushFailed == Ran("remote get-url") /\ remote < Len(commits)

PushSucceeded == Ran("push") /\ remote = Len(commits)

\* C10: a push failure (missing remote or rejected push) does not propagate as
\* an exception and does not undo the commit: the commit of the run is kept,
\* the error and the remediation hints are printed, and the outcome differs
\* in what is reported from that of a successful push.
C10_PushFailurePreservesCommit ==
    /\ PushFailed =>
          /\ pc = "exited"
          /\ exitCode = 0
          /\ returnedAt \in {171, 189}
          /\ commits = <<commitMessage>>
          /\ remote = 0
          /\ Printed("Push failed")
          /\ Printed("Set up a remote: git remote add origin <url>")
          /\ Printed("Push manually: git push origin <branch>")
          /\ ~Printed("Successfully pushed")
    /\ PushSucceeded =>
          /\ Printed("Successfully pushed")
          /\ ~Printed("Push failed")
          /\ remote = 1

C10_Witness ==
    /\ PushFailed
    /\ Ran("push")
    /\ opts.autoPush
    /\ returnedAt = 171

\* the stops of a failed apply step: nothing after the apply step has run
FailedApply ==
    /\ pc = "exited"
    /\ Printed("Failed to apply patch")
    /\ idx \in 1..Len(Files)
    /\ execLog = <<>>
    /\ repo = "unknown"
    /\ NoCommitOrPush
    /\ prompts = <<"confirmApply">>

\* path p holds what the first n entries of patch.files left there
HoldsAsWritten(p, n) ==
    LET j == LastCreate(p, n)
        init == DiskWith(patch[1])
    IN  IF j > 0
        THEN p \in DOMAIN disk /\ disk[p] = TextFile(ReconstructContent(Files[j].diff))
        ELSE IF p \in DOMAIN init THEN p \in DOMAIN disk /\ disk[p] = init[p]
        ELSE p \notin DOMAIN disk

AllPaths == DOMAIN disk \cup {Files[i].path : i \in 1..Len(Files)}

\* C11 as stated: when entry k fails, the k-1 earlier changes stay on disk exactly
\* as written, nothing later is written and the workflow ends failed with no
\* status, commit or push.
C11_NoRollback ==
    returnedAt = 100 =>
        /\ FailedApply
        /\ \A p \in AllPaths :
              (p # Files[idx].path \/ LastCreate(p, idx - 1) > 0) =>
                  HoldsAsWritten(p, idx - 1)

\* C11 amended: when entry k fails, every path other than the one entry k names
\* holds what the k-1 earlier entries left there; the path entry k names holds
\* that too or, when the write of entry k failed once the file was opened, a
\* proper prefix of the content of entry k; nothing later is written and the
\* workflow ends failed with no status, commit or push.
C11_NoRollbackButFailedPath ==
    returnedAt = 100 =>
        /\ FailedApply
        /\ \A p \in AllPaths \ {Files[idx].path} : HoldsAsWritten(p, idx - 1)
        /\ LET fc == Files[idx]
           IN  \/ HoldsAsWritten(fc.path, idx - 1)
               \/ /\ IsCreateWithDiff(fc)
                  /\ fc.path \in DOMAIN disk
                  /\ \E t \in Texts :
                        /\ disk[fc.path] = TextFile(t)
                        /\ Len(t) < Len(ReconstructContent(fc.diff))
                        /\ t = SubSeq(ReconstructContent(fc.diff), 1, Len(t))

C11_Witness ==
    /\ returnedAt = 100
    /\ Len(Files) = 3
    /\ idx = 2
    /\ Files[1] = FileChange(PathB, "create", <<"+", "x">>)
    /\ Files[2] = FileChange(PathA, "create", <<"+", "-", NL, "+">>)
    /\ Files[3] = FileChange(PathRecord, "create", <<"+", "x">>)
    /\ disk[PathB] = TextFile(<<"x">>)
    /\ disk[PathA] = TextFile(<<"-">>)
    /\ disk[PathRecord] = JsonFile(patch[1])

Count(seq, x) == Cardinality({i \in 1..Len(seq) : seq[i] = x})

\* C12: a modify change never writes or alters its target, is never counted as
\* applied, and prints one warning, with or without a diff: after any number of
\* completed entries the warnings printed are as many as the completed modify
\* changes, the applied paths are those of the completed create changes and
\* every path holds what the create changes left there.
C12_ModifyWarnsPerFile ==
    (Len(patch) = 1 /\ idx >= 1 /\ returnedAt # 100) =>
        LET n == Processed
            done == SubSeq(Files, 1, n)
        IN  /\ Count(console, ModifyWarning)
                 = Cardinality({j \in 1..n : Files[j].operation = "modify"})
            /\ appliedFiles = [i \in 1..Len(SelectSeq(done, IsCreateWithDiff)) |->
                                  SelectSeq(done, IsCreateWithDiff)[i].path]
            /\ \A p \in AllPaths : HoldsAsWritten(p, n)

\* position of the workflow in the order summary, files applied, status shown,
\* message collected, committed, pushed
Rank(at) ==
    CASE at = "cli" -> 0
      [] at = "confirmApply" -> 1
      [] at = "applying" -> 2
      [] at = "status" -> 3
      [] at = "confirmCommit" -> 4
      [] at = "editMessage" -> 5
      [] at = "stageCommit" -> 6
      [] at = "confirmPush" -> 7
      [] at = "pushing" -> 8
      [] at = "exited" -> 9

NamedTerminalStates ==
    {"CANCELLED_BEFORE_APPLY", "APPLIED_NO_GIT", "APPLIED_NOT_COMMITTED",
     "COMMITTED_NOT_PUSHED", "PUSHED", "FAILED"}

\* what a finished run has done, told from its effects
Outcome(s) ==
    CASE s = "CANCELLED_BEFORE_APPLY" ->
            answers.confirmApply = "no"
      [] s = "NOTHING_CHANGED" ->
            /\ answers.confirmApply = "yes"
            /\ idx > Len(Files)
            /\ Len(appliedFiles) = 0
      [] s = "APPLIED_NO_GIT" ->
            Len(appliedFiles) > 0 /\ repo = "no"
      [] s = "APPLIED_NOT_COMMITTED" ->
            /\ Len(appliedFiles) > 0
            /\ Ran("status")
            /\ ~Ran("add")
      [] s = "COMMITTED_NOT_PUSHED" ->
            /\ Len(commits) = 1
            /\ ~Ran("remote get-url")
      [] s = "PUSHED" ->
            PushSucceeded
      [] s = "FAILED" ->
            \/ answers.confirmApply = "yes" /\ idx <= Len(Files)
            \/ CommitFailed
            \/ PushFailed

Outcomes(states) == {s \in states : Outcome(s)}

WorkflowReturned == pc = "exited" /\ Len(patch) = 1

\* the prompts and git commands of a run come in the order of the workflow
InWorkflowOrder ==
    /\ \E n \in 0..4 :
          prompts = SubSeq(<<"confirmApply", "shouldCommit", "commitMessage",
                             "shouldPush">>, 1, n)
    /\ \E n \in 0..4 :
          \/ execLog = SubSeq(<<"rev-parse", "status", "add", "commit">>, 1, n)
          \/ /\ n = 4
             /\ \E m \in 1..3 :
                   execLog = <<"rev-parse", "status", "add", "commit">>
                                \o SubSeq(<<"branch", "remote get-url", "push">>, 1, m)
    /\ Ran("add") => Asked("commitMessage")
    /\ Ran("branch") => opts.autoPush \/ Asked("shouldPush")

\* C13 as stated: a run that has returned is in exactly one of the six named
\* terminal states.
C13_NamedTerminalState ==
    WorkflowReturned => Cardinality(Outcomes(NamedTerminalStates)) = 1

\* C13 amended: with every prompt answered and every command returning, a run
\* returns; it has then reached exactly one of the six named terminal states or
\* the unnamed stop after an apply step that applied no file; and every step
\* moves forward in the order summary, files applied, status shown, message
\* collected, committed, pushed.
C13_TerminatesForwardOnly ==
    /\ [](WorkflowReturned =>
             Cardinality(Outcomes(NamedTerminalStates \cup {"NOTHING_CHANGED"})) = 1)
    /\ [](returnedAt # 0 <=> WorkflowReturned)
    /\ []InWorkflowOrder
    /\ [][\/ Rank(pc') > Rank(pc)
          \/ pc = "applying" /\ pc' = "applying" /\ idx' = idx + 1]_vars
    /\ <>(pc = "exited")

C13_Witness ==
    /\ WorkflowReturned
    /\ returnedAt = 96
    /\ Outcomes(NamedTerminalStates) = {}
    /\ Len(Files) = 2
    /\ Printed(ModifyWarning)

\* a savePatch argument that is a Patch of the data model: every field present
Conforming(arg) ==
    /\ Len(arg.timestamp) = 1
    /\ Len(arg.description) = 1
    /\ Len(arg.files) = 1
    /\ Len(arg.metadata) = 1

AsPatch(arg) ==
    [name |-> arg.name, timestamp |-> arg.timestamp[1],
     description |-> arg.description[1], files |-> arg.files[1],
     metadata |-> arg.metadata[1]]

Saved == call.op = "savePatch" /\ ~call.threw

\* C14: for every Patch p of the data model, whatever its integer timestamp,
\* description, files and metadata, getPatch(p.name) after savePatch(p) returns
\* a record equal to p field by field, files in the same order.
C14_SaveGetRoundTrip ==
    (Saved /\ Conforming(call.input[1])) =>
        GetPatch(call.name) = [threw |-> FALSE, value |-> <<AsPatch(call.input[1])>>]

\* the files of the store that hold a record named name
RecordsNamed(name) ==
    {p \in PatchFilesOf(disk) : Parses(disk[p]) /\ disk[p].json[1].name = name}

\* C15: a name identifies at most one record: after a savePatch(p2), whatever was
\* saved under p2.name before, the store holds exactly one record of that name
\* and it equals p2, nothing of an earlier record being merged into it.
C15_OverwriteByName ==
    (Saved /\ Conforming(call.input[1])) =>
        /\ RecordsNamed(call.name) = {StorePath(call.name)}
        /\ disk[StorePath(call.name)] = JsonFile(AsPatch(call.input[1]))

\* the records the store holds, every one of them parsing
StoredPatches == {disk[p].json[1] : p \in PatchFilesOf(disk)}

AllParse == \A p \in PatchFilesOf(disk) : Parses(disk[p])

DistinctTimestamps ==
    \A p, q \in PatchFilesOf(disk) :
        p # q => disk[p].json[1].timestamp # disk[q].json[1].timestamp

\* C16: when the records of the store have pairwise distinct timestamps,
\* listPatches returns every stored patch exactly once, newest first: the
\* timestamps of the list are strictly descending.
C16_ListNewestFirst ==
    (call.op = "listPatches" /\ PatchesDir \in dirs /\ AllParse /\ DistinctTimestamps) =>
        /\ ~call.threw
        /\ Len(call.patches) = Cardinality(PatchFilesOf(disk))
        /\ {call.patches[i] : i \in 1..Len(call.patches)} = StoredPatches
        /\ \A i \in 1..(Len(call.patches) - 1) :
              call.patches[i].timestamp > call.patches[i + 1].timestamp

C16_Witness ==
    /\ call.op = "listPatches"
    /\ Len(call.patches) = 3
    /\ call.patches[1] = ProducedRecord("p2", Now)
    /\ call.patches[2] = ProducedRecord("p3", 0)
    /\ call.patches[3] = ProducedRecord("p1", -1)

\* C17: clearPatches on a store of N records, whatever the store holds, removes
\* exactly those N records and returns N, and listPatches afterwards returns the
\* empty list; no file operation failing.
C17_ClearRemovesEveryRecord ==
    [][(/\ call'.op = "clearPatches"
        /\ PatchesDir \in dirs
        /\ call'.error # "Failed to delete patch") =>
           /\ ~call'.threw
           /\ call'.count = Cardinality(PatchFilesOf(disk))
           /\ DOMAIN disk' = DOMAIN disk \ PatchFilesOf(disk)
           /\ \A q \in DOMAIN disk' : disk'[q] = disk[q]
           /\ ListPatches(disk', <<>>) = [threw |-> FALSE, value |-> <<>>]]_vars

\* C18: ensurePatchesDir is idempotent: once the directory exists a call never
\* throws and changes no directory, and no call adds, removes or alters a file
\* of the store; so does the call at the start of every store method: once the
\* directory exists no method ends with the directory error, a method that
\* ends with it has changed nothing, and the methods that only read afterwards
\* (getPatch, listPatches) leave every file as it was.
C18_EnsureIdempotent ==
    [][/\ call'.op = "ensurePatchesDir" =>
             /\ disk' = disk
             /\ PatchesDir \in dirs => (~call'.threw /\ dirs' = dirs)
             /\ ~call'.threw => dirs' = dirs \cup Prefixes(PatchesDir)
       /\ PatchesDir \in dirs => (call'.error # EnsureFailed /\ dirs' = dirs)
       /\ call'.error = EnsureFailed => (disk' = disk /\ dirs' = dirs)
       /\ call'.op \in {"getPatch", "listPatches"} => disk' = disk]_vars

C18_Witness ==
    /\ call.op = "ensurePatchesDir"
    /\ ~call.threw
    /\ PatchFilesOf(disk) = {StorePath("p1"), StorePath("p2")}
    /\ disk[StorePath("p1")] = TruncatedJson
    /\ Parses(disk[StorePath("p2")])
    /\ NotesPath \in DOMAIN disk

\* C19: getPatch(name) for a name without a record returns null and does not
\* throw, on an empty store and on a store holding other records, and leaves
\* every file of the store as it was; the directory being there or creatable.
C19_GetMissingReturnsNull ==
    [][(/\ call'.op = "getPatch"
        /\ StorePath(call'.name) \notin DOMAIN disk
        /\ call'.error # EnsureFailed) =>
           /\ ~call'.threw
           /\ call'.patches = <<>>
           /\ disk' = disk]_vars

C19_Witness ==
    /\ call.op = "getPatch"
    /\ call.name = "p2"
    /\ ~call.threw
    /\ call.patches = <<>>
    /\ PatchFilesOf(disk) = {StorePath("p1")}
    /\ Parses(disk[StorePath("p1")])

\* C20: deletePatch(name) returns true exactly when a file for name existed
\* before the call and false otherwise; for a name without a file it does not
\* throw and changes nothing; when it returns no file for name exists and every
\* other file is as before; a failed call changes nothing.
C20_DeleteReportsExistence ==
    [][(call'.op = "deletePatch" /\ call'.error # EnsureFailed) =>
           LET patchPath == StorePath(call'.name)
               existed == patchPath \in DOMAIN disk
           IN  /\ ~existed => (~call'.threw /\ disk' = disk)
               /\ ~call'.threw =>
                     /\ call'.flag = existed
                     /\ DOMAIN disk' = DOMAIN disk \ {patchPath}
                     /\ \A q \in DOMAIN disk' : disk'[q] = disk[q]
               /\ call'.threw => (disk' = disk /\ ~call'.flag)]_vars

C20_Witness ==
    /\ call.op = "deletePatch"
    /\ call.name = "p1"
    /\ call.flag
    /\ PatchFilesOf(disk) = {StorePath("p2")}
    /\ Parses(disk[StorePath("p2")])
    /\ NotesPath \in DOMAIN disk


\* the record files of the store that JSON.parse rejects
CorruptRecords == {p \in PatchFilesOf(disk) : ~Parses(disk[p])}

\* the message parts name the record of the file p, by its name or its file name
Mentions(parts, p) ==
    \E n \in ListNames, i \in 1..Len(parts) :
        /\ StorePath(n) = p
        /\ parts[i] \in {n, n \o ".json"}

\* C21: whenever a record file of the store cannot be parsed, listPatches fails
\* as a whole with an error that identifies the offending record's name: it
\* returns no list, partial or otherwise, and leaves the store unchanged
C21_ListFailsNamingRecord ==
    [][(call'.op = "listPatches" /\ CorruptRecords # {}) =>
          /\ call'.threw
          /\ call'.patches = <<>>
          /\ disk' = disk
          /\ \E p \in CorruptRecords : Mentions(<<call'.error>> \o call'.detail, p)]_vars


\* the file of the store under this name, <<>> when there is none
RecordFile(files, name) ==
    IF StorePath(name) \in DOMAIN files THEN <<files[StorePath(name)]>> ELSE <<>>

\* C22: savePatch is atomic for its caller: however the call ends, the record
\* stored under the patch's name is the complete new record or what was there
\* before the call (the previous record, or nothing), never a partly written
\* one; and it is the new record when the call returns
C22_SaveAtomic ==
    [][call'.op = "savePatch" =>
          LET before == RecordFile(disk, call'.name)
              after == RecordFile(disk', call'.name)
              written == {<<JsonFile(call'.patches[i])>> : i \in 1..Len(call'.patches)}
          IN  /\ after = before \/ after \in written
              /\ ~call'.threw => after \in written]_vars


\* the path is that of a file in the store directory or below it
InStore(p) == Len(p) > Len(PatchesDir) /\ SubSeq(p, 1, Len(PatchesDir)) = PatchesDir

\* C23: whatever patch name a method of the store is given, it creates, writes
\* and deletes only files inside the store directory: every file outside it
\* exists after the call exactly when it did before, with the same content
C23_StoreFrame ==
    [][\A p \in DOMAIN disk \cup DOMAIN disk' :
          ~InStore(p) =>
              /\ p \in DOMAIN disk
              /\ p \in DOMAIN disk'
              /\ disk'[p] = disk[p]]_vars


\* the stage command has run createPatchFromFiles and it returned a patch
Staged == call.op = "createPatchFromFiles" /\ ~call.threw

\* version control has no tracked history for a file in this state
NoHistory(git) == git \in {"norepo", "untracked"}

\* the diff ends with the whole content, as it is or each line prefixed with '+'
HasBody(diff, content) ==
    \E k \in 0..Len(diff) :
        SubSeq(diff, k + 1, Len(diff)) \in {content, PlusPrefixed(content)}

\* C24: for every existing file given to createPatchFromFiles, the file change
\* has operation create and a diff whose body is the file's whole content when
\* version control has no tracked history for it (an untracked file, or no
\* repository), and has operation modify and the diff against the last commit
\* otherwise
C24_CreateOrModify ==
    Staged =>
        LET fs == call.patches[1].files
            git == call.input[1].git
        IN  \A i \in 1..Len(fs) :
                IF NoHistory(git[fs[i].path])
                THEN /\ fs[i].operation = "create"
                     /\ HasBody(fs[i].diff, disk[fs[i].path].text)
                ELSE /\ fs[i].operation = "modify"
                     /\ fs[i].diff = GitDiffHead(git[fs[i].path]).out


\* createPatchFromFiles ran and neither the store directory nor the write of the
\* record failed
StageRan == call.op = "createPatchFromFiles" /\ call.error = ""

\* the path names a file, and one that can be read where its content is needed:
\* the diff body of a file without tracked history is its content
Processable(p, in) ==
    /\ p \in DOMAIN disk
    /\ ~(p \in in.unreadable /\ NoHistory(in.git[p]))

\* C25: a missing or unreadable input path never aborts createPatchFromFiles:
\* the call returns a patch, each such path is skipped with a warning, and the
\* patch's files are the processable input paths, one entry for each
\* occurrence, in input order
C25_SkipsUnprocessable ==
    StageRan =>
        LET in == call.input[1]
            fs == call.patches[1].files
            skipped == SelectSeq(in.filePaths, LAMBDA p : ~Processable(p, in))
        IN  /\ ~call.threw
            /\ exitCode = 0
            /\ [i \in 1..Len(fs) |-> fs[i].path] =
                   SelectSeq(in.filePaths, LAMBDA p : Processable(p, in))
            /\ \A p \in StagePaths :
                   Count(console, StageWarning(p)) = Count(skipped, p)


\* the step is a run of the stage command without --name
StagesUnnamed ==
    /\ pc = "cli"
    /\ pc' = "exited"
    /\ call'.op = "createPatchFromFiles"
    /\ call'.input[1].name = <<>>

\* C28: the stage command without --name is rejected before any side effect:
\* it ends with status 1, prints no 'Patch created', and neither a record nor
\* the store directory is created or changed
C28_StageRequiresName ==
    [][StagesUnnamed =>
          /\ exitCode' = 1
          /\ \A i \in 1..Len(console') : console'[i] # "Patch created: " \o call'.name
          /\ disk' = disk
          /\ dirs' = dirs]_vars


EditorOps == {"openWorkspace", "openFiles", "openPatch"}

\* C30: no method of the bridge throws to its caller; without the launcher it
\* returns false and launches nothing, it returns false when a launch it issued
\* failed, and it returns true only when every launch it issued succeeded
C30_BridgeNeverThrows ==
    call.op \in EditorOps =>
        LET in == call.input[1]
            failed == \E i \in 1..Len(in.launched) : in.launched[i].outcome = "fails"
        IN  /\ ~call.threw
            /\ ~in.available => (call.flag = FALSE /\ in.launched = <<>>)
            /\ failed => call.flag = FALSE
            /\ call.flag = TRUE => (in.available /\ ~failed)

\* openPatch has launched the workspace and then failed to launch the files
C30_Witness ==
    /\ call.op = "openPatch"
    /\ Len(call.input[1].launched) = 2
    /\ call.input[1].launched[2].outcome = "fails"
    /\ call.flag = FALSE
    /\ ~call.threw


\* the step is the start of show, open or apply for this name
CommandStep(name) ==
    \/ ShowCommand(name)
    \/ \E available \in BOOLEAN, first \in LaunchOutcomes, second \in LaunchOutcomes :
          OpenCommand(name, available, first, second)
    \/ \E noCommit \in BOOLEAN, autoPushFlag \in BOOLEAN :
          ApplyCommand(name, noCommit, autoPushFlag)

WorkflowFailed == pc = "exited" /\ returnedAt \in {100, 164}

\* C27: the apply command exits 0 on success and non-zero on an error: when
\* its workflow fails while writing the patch's files or while committing, the
\* process ends with a non-zero status and does not report the workflow as
\* complete; a command that never got a patch ends with status 1, and a
\* workflow that ran to its end with status 0
C27_ExitStatus ==
    /\ WorkflowFailed =>
          /\ exitCode # 0
          /\ ~Printed("Patch workflow complete!")
    /\ (pc = "exited" /\ returnedAt = 0) => exitCode = 1
    /\ (pc = "exited" /\ returnedAt = 189) => exitCode = 0


\* the step is a run of the clear command
ClearStep == pc = "cli" /\ pc' = "exited" /\ call'.op = "clear"

\* the clear command ended on a failure of the file system: the store directory
\* could not be created or a record could not be unlinked
ClearIOFailed == call'.error \in {EnsureFailed, "Failed to delete patch"}

\* C29: the clear command deletes only behind its gate: without --force it
\* prompts first and, on the answer no, leaves every record as it is and exits
\* normally; with --force it prompts for nothing and deletes every record
C29_ClearGate ==
    [][ClearStep =>
          LET in == call'.input[1]
          IN  /\ ~in.force => prompts' = Append(prompts, "confirmClear")
              /\ (~in.force /\ ~in.confirm) =>
                    /\ disk' = disk
                    /\ dirs' = dirs
                    /\ exitCode' = 0
              /\ in.force => prompts' = prompts
              /\ (in.force /\ ~ClearIOFailed) =>
                    /\ PatchFilesOf(disk') = {}
                    /\ exitCode' = 0]_vars


\* C31: the message of every commit the workflow creates is the message the
\* user returned from the edit prompt, character for character, whatever the
\* user typed (several lines, quotes) and also when it is the unedited default
C31_MessageVerbatim ==
    \A i \in 1..Len(commits) : commits[i] = commitMessage


\* the pattern occurs in the text at some position
Occurs(pattern, text) ==
    \E i \in 1..Len(text) :
        /\ i + Len(pattern) - 1 <= Len(text)
        /\ \A k \in 1..Len(pattern) : text[i + k - 1] = pattern[k]

\* the text begins with the prefix
Begins(prefix, text) ==
    /\ Len(prefix) <= Len(text)
    /\ \A k \in 1..Len(prefix) : text[k] = prefix[k]

\* the text without its first and last blanks
Stripped(text) ==
    LET kept == {i \in 1..Len(text) : text[i] # " "}
    IN  IF kept = {} THEN <<>>
        ELSE LET first == CHOOSE i \in kept : \A j \in kept : i <= j
                 last == CHOOSE i \in kept : \A j \in kept : j <= i
             IN  SubSeq(text, first, last)

\* C32: evaluateCommand blocks on the dangerous patterns before it looks at the
\* safe prefixes: the status is blocked exactly when the trimmed command holds
\* a dangerous pattern anywhere, also behind a safe prefix or inside quotes;
\* otherwise it is approved exactly when the trimmed command starts with a safe
\* prefix, and conditional in every other case; category and context come back
\* as given
C32_BlockedBeforeApproved ==
    call.op = "evaluateCommand" =>
        LET in == call.input[1]
            result == call.patches[1]
            text == Stripped(in.command)
            dangerous == \E pattern \in dangerousPatterns : Occurs(pattern, text)
            safe == \E prefix \in safePrefixes : Begins(prefix, text)
        IN  /\ result.command = text
            /\ result.status = "blocked" <=> dangerous
            /\ result.status = "approved" <=> (~dangerous /\ safe)
            /\ result.status = "conditional" <=> (~dangerous /\ ~safe)
            /\ result.category = in.category
            /\ result.context = in.context

\* a command that starts with a safe prefix and holds a dangerous word inside
\* quotes has been blocked
C32_Witness ==
    /\ call.op = "evaluateCommand"
    /\ call.input[1].command = <<"echo", DQ, "sudo", DQ>>
    /\ call.patches[1].status = "blocked"

\* the extension list a configuration names, the default list when it names none
ConfiguredExtensions(config) ==
    LET list == IF Len(config.safety) = 1
                   /\ Len(config.safety[1].allowed_file_extensions) = 1
                THEN config.safety[1].allowed_file_extensions[1] ELSE DefaultExtensions
    IN  {list[i] : i \in 1..Len(list)}

\* the size limit a configuration names, the default limit when it names none
ConfiguredMaxBytes(config) ==
    IF Len(config.safety) = 1 /\ Len(config.safety[1].max_file_bytes) = 1
    THEN config.safety[1].max_file_bytes[1] ELSE DefaultMaxBytes

\* the configuration switches file writing off
WritingDisabled(config) ==
    Len(config.safety) = 1 /\ config.safety[1].enable_file_writing = <<FALSE>>

\* the path an operation targets, below the project directory
TargetOf(fileOp) ==
    JoinProject(IF Len(fileOp.file_path) = 1 THEN fileOp.file_path[1] ELSE <<>>)

\* the extension of a path: its last component from the last dot on, nothing
\* when the component holds no dot
Extension(parts) ==
    IF Len(parts) = 0 THEN <<>>
    ELSE LET base == parts[Len(parts)]
             dots == {i \in 1..Len(base) : base[i] = "."}
         IN  IF dots = {} THEN <<>>
             ELSE SubSeq(base, CHOOSE i \in dots : \A j \in dots : j <= i, Len(base))

\* the content an operation would write: the template's when the table holds the
\* name, else its own; nothing when it has neither
ContentOf(fileOp) ==
    IF Len(fileOp.content_template) = 1 /\ Len(Template(fileOp.content_template[1])) = 1
    THEN Template(fileOp.content_template[1])
    ELSE IF Len(fileOp.content) = 1 /\ fileOp.content[1] # <<>> THEN fileOp.content
    ELSE <<>>

\* C33: validateFileOperation approves an operation only if the extension of
\* its target path is in the configured list of allowed extensions, for every
\* path and configuration, and answers disabled to every operation when the
\* configuration switches file writing off
C33_ExtensionApproval ==
    call.op = "validateFileOperation" =>
        LET in == call.input[1]
            result == call.patches[1]
        IN  /\ result.status = "approved" =>
                  Extension(TargetOf(in.fileOp)) \in ConfiguredExtensions(in.safetyConfig)
            /\ WritingDisabled(in.safetyConfig) => result.status = "disabled"

\* C34: validateFileOperation never approves an operation whose target exists
\* nor one whose content is longer than the configured size limit, and an
\* operation with neither content nor a known template is never approved: it is
\* skipped unless writing is disabled or the extension is blocked
C34_NoOverwriteNoOversize ==
    call.op = "validateFileOperation" =>
        LET in == call.input[1]
            result == call.patches[1]
            target == DiskPath(TargetOf(in.fileOp))
            content == ContentOf(in.fileOp)
        IN  /\ result.status = "approved" =>
                  (target \notin DOMAIN disk /\ target \notin dirs
                   /\ \E i \in 1..Len(target) : target[i] # "..")
            /\ result.status = "approved" =>
                  (Len(content) = 1 /\ Len(content[1]) <= ConfiguredMaxBytes(in.safetyConfig))
            /\ Len(content) = 0 => result.status \in {"disabled", "blocked", "skipped"}
            /\ (Len(content) = 0 /\ result.status = "blocked") =>
                  Extension(TargetOf(in.fileOp)) \notin ConfiguredExtensions(in.safetyConfig)

\* C35: openPatch launches the workspace first and, once the settle delay has
\* passed, one command for all files of the patch, each resolved against the
\* workspace root, in the order of patch.files; when the workspace fails to
\* open no files are launched and the result is false; a patch without files
\* launches the workspace only
C35_OpenPatchOrder ==
    (call.op = "openPatch" /\ call.input[1].available /\ call.input[1].arg # <<>>) =>
        LET launched == call.input[1].launched
            files == call.input[1].arg[1].files
            n == Len(execLog)
        IN  /\ Len(launched) \in {1, 2}
            /\ launched[1].cmd = "code workspace"
            /\ launched[1].args = <<WorkspaceRoot>>
            /\ launched[1].outcome = "fails" => (Len(launched) = 1 /\ call.flag = FALSE)
            /\ Len(files) = 0 => Len(launched) = 1
            /\ (launched[1].outcome = "ok" /\ Len(files) > 0) =>
                  /\ Len(launched) = 2
                  /\ launched[2].cmd = "code files"
                  /\ launched[2].after >= SettleDelay
                  /\ Len(launched[2].args) = Len(files)
                  /\ \A i \in 1..Len(files) :
                        launched[2].args[i] = WorkspaceRoot \o files[i].path
            /\ n >= Len(launched)
            /\ \A i \in 1..Len(launched) :
                  execLog[n - Len(launched) + i] = launched[i].cmd

\* openPatch has opened the workspace and then the two files of a patch
C35_Witness ==
    /\ call.op = "openPatch"
    /\ Len(call.input[1].arg) = 1
    /\ Len(call.input[1].arg[1].files) = 2
    /\ Len(call.input[1].launched) = 2
    /\ call.input[1].launched[2].args = <<PathB, PathA>>
    /\ call.flag = TRUE

\* the listPatches call failed on a file that was gone when it was read
ListLostRecord ==
    /\ call.op = "listPatches"
    /\ call.threw
    /\ call.detail = NoEntry

\* C36: a listPatches call fails on a missing record, returning none of the
\* records that remain, only when another invocation removed a record of its
\* directory listing between the readdir and the read; a call no deletePatch
\* of another invocation falls into returns every record it listed
C36_ListFailsOnlyWhenRaced ==
    /\ ListLostRecord =>
          /\ call.input[1].removed > 0
          /\ call.patches = <<>>
          /\ \E i \in 1..Len(call.input[1].order) :
                call.input[1].order[i] \notin DOMAIN disk
    /\ (call.op = "listPatches" /\ call.input[1].removed = 0) =>
          /\ ~ListLostRecord
          /\ ~call.threw => Len(call.patches) = Len(call.input[1].order)

\* the call listed two records, another invocation deleted one before it was
\* read, and the call failed although the other record is still in the store
C36_Witness ==
    /\ ListLostRecord
    /\ Len(call.input[1].order) = 2
    /\ call.input[1].removed = 1
    /\ \E i \in 1..2 : call.input[1].order[i] \in DOMAIN disk

\* PatchManager.applyPatch has returned from applying a staged patch
StagedApplied ==
    /\ call.op = "createPatchFromFiles"
    /\ Len(call.input) = 2
    /\ pc = "applying"
    /\ idx > Len(Files)

\* C37: a patch staged from files without tracked history and applied where
\* the files are absent recreates each of them with exactly its original
\* content and reports it as applied
C37_StageApplyIdentity ==
    StagedApplied =>
        LET git == call.input[1].git
            original == call.input[2]
        IN  \A i \in 1..Len(Files) :
                NoHistory(git[Files[i].path]) =>
                    /\ Files[i].path \in DOMAIN disk
                    /\ disk[Files[i].path].text = original[Files[i].path].text
                    /\ \E k \in 1..Len(appliedFiles) : appliedFiles[k] = Files[i].path

\* C38: when PatchManager.applyPatch returned an empty list, which the workflow
\* reports as nothing modified, the workspace is as it was before the call: no
\* file and no directory was created, written or removed
C38_NothingAppliedNothingChanged ==
    (returnedAt = 96 /\ Len(appliedFiles) = 0) =>
        /\ disk = DiskWith(patch[1])
        /\ dirs = Prefixes(PatchesDir)

\* the entries of the patch that name path p and are written by applyPatch
CreatesOf(p) == {j \in 1..Len(Files) : Files[j].path = p /\ IsCreateWithDiff(Files[j])}

\* C39: in one run of the workflow each irreversible step happens at most
\* once: every entry of the patch is applied at most once, at most one commit
\* is created and at most one push is attempted, whatever the answers, the
\* options and the failures
C39_AtMostOnce ==
    /\ idx <= Len(Files) + 1
    /\ \A i \in 1..Len(appliedFiles) :
          Count(appliedFiles, appliedFiles[i]) <= Cardinality(CreatesOf(appliedFiles[i]))
    /\ Len(commits) <= 1
    /\ Count(execLog, "commit") <= 1
    /\ Count(execLog, "push") <= 1

\* a run has applied two entries that name the same path, created a commit
\* and pushed it
C39_Witness ==
    /\ pc = "exited"
    /\ Len(appliedFiles) = 2
    /\ appliedFiles[1] = appliedFiles[2]
    /\ Len(commits) = 1
    /\ Count(execLog, "push") = 1
    /\ remote = 1

\* a run of reviewPatches, and the files and directories it started from
Reviewing == call.op = "reviewPatches"

\* the user selected a patch and answered yes to both confirmations
BothConfirmed ==
    /\ call.name # ""
    /\ call.flag
    /\ answers.confirmApply = "yes"

\* the selection was made and the record was read
PatchSelected == Reviewing /\ call.name # "" /\ call.error # "Failed to read patch"

\* C40 as stated: unless a patch was selected and both confirmations were
\* answered yes, a review leaves the workspace and the store unchanged, files
\* and directories alike; and a selection always reaches the review
\* confirmation, editor or not
C40_ReviewWritesNothing ==
    /\ (Reviewing /\ ~BothConfirmed) =>
          /\ disk = call.input[1].disk
          /\ dirs = call.input[1].dirs
    /\ PatchSelected => Asked("proceedWithApply")

\* C40, amended: unless a patch was selected and both confirmations were
\* answered yes, a review leaves every file of the workspace and every record
\* of the store unchanged and creates no directory but the store directory,
\* which its first store call creates when it is missing; and a selection
\* always reaches the review confirmation, editor or not
C40_ReviewWritesNoFile ==
    /\ (Reviewing /\ ~BothConfirmed) =>
          /\ disk = call.input[1].disk
          /\ call.input[1].dirs \subseteq dirs
          /\ dirs \subseteq EnsurePatchesDir(call.input[1].dirs)
    /\ PatchSelected => Asked("proceedWithApply")

\* the editor was not found, the user confirmed twice and a file was written
C40_Witness ==
    /\ Reviewing
    /\ BothConfirmed
    /\ Printed(EditorNotFound)
    /\ Len(appliedFiles) > 0
    /\ disk # call.input[1].disk

====
